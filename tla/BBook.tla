-------------------------------- MODULE BBook --------------------------------
(***************************************************************************)
(* The B-book: perpetual positions the platform itself is the other side    *)
(* of (routing.service.ts, bbook-risk-monitor.service.ts and the parts of   *)
(* orders.service.ts that fill internally).  An order is routed before its  *)
(* transaction and again inside it, under an advisory lock; the row of the  *)
(* market's exposure that the decision reads is kept by the fills and, from *)
(* outside that lock, by a monitor that runs every ten seconds.             *)
(*                                                                          *)
(* One market at price 1.  A long position is a positive number.  An order  *)
(* that leaves for the A-book is no longer followed (module PerpOrders).    *)
(***************************************************************************)
EXTENDS Integers, FiniteSets, FiniteSetsExt

CONSTANTS
  Traders, Calls,        \* requests and the liquidation worker, at most one order at a time each
  Slots,                 \* a trader's stop-loss and take-profit
  Lots,                  \* the sizes that may be asked for
  OrderCap, MarketCap,   \* min of the risk row and the share of capital
  MaxAsks                \* bound: how many orders a behaviour has

BBookAssumption ==
  /\ IsFiniteSet(Traders) /\ Lots \subseteq Nat \ {0} /\ OrderCap \in Nat /\ MarketCap \in Nat /\ MaxAsks \in Nat

VARIABLES
  pos,       \* trader -> size of the open B-book position
  row,       \* b_book_exposures of the market: [long, short]
  gate,      \* [paused: the setting, eligible: the market's data pass the checks]
  ask,       \* call -> the order it is creating
  trigger,   \* trader -> slot -> TP/SL order
  stray,     \* trader -> there is a live A-book order that was to close a B-book position
  monitor,   \* [pc, long, short]: what the monitor has read
  raced,     \* history: the monitor has written totals that were out of date
  asks
bvars == <<pos, row, gate, ask, trigger, stray, monitor, raced, asks>>

NoAsk     == [pc |-> "none", kind |-> "open", user |-> CHOOSE u \in Traders : TRUE, delta |-> 0]
NoTrigger == [status |-> "NONE", delta |-> 0]
Size(n)   == IF n < 0 THEN -n ELSE n
Floor(n)  == IF n < 0 THEN 0 ELSE n
Total(f)  == MapThenSumSet(LAMBDA u : f[u], Traders)

BInit ==
  /\ pos = [u \in Traders |-> 0] /\ row = [long |-> 0, short |-> 0]
  /\ gate \in [paused : BOOLEAN, eligible : {TRUE}]
  /\ ask = [c \in Calls |-> NoAsk]
  /\ trigger = [u \in Traders |-> [s \in Slots |-> NoTrigger]]
  /\ stray = [u \in Traders |-> FALSE]
  /\ monitor = [pc |-> "idle", long |-> 0, short |-> 0]
  /\ raced = FALSE /\ asks = 0

Ask == asks < MaxAsks /\ asks' = asks + 1

\* routing.decide: FALSE is the A-book.
Decide(delta) ==
  /\ ~gate.paused /\ gate.eligible
  /\ Size(delta) <= OrderCap
  /\ Size(row.long - row.short + delta) <= MarketCap

\* updateExposure, once for what a fill closes and once for what it opens.
AddToRow(r, long, n) ==
  IF long THEN [r EXCEPT !.long = Floor(@ + n)] ELSE [r EXCEPT !.short = Floor(@ + n)]

RowAfter(r, p, d) ==
  LET closed == IF p * d >= 0 THEN 0 ELSE IF Size(d) < Size(p) THEN Size(d) ELSE Size(p)
  IN  AddToRow(AddToRow(r, p > 0, -closed), d > 0, Size(d) - closed)

\* applyFill; a position closed to zero takes its other open triggers along.
Filled(u, d) ==
  /\ pos' = [pos EXCEPT ![u] = @ + d]
  /\ row' = RowAfter(row, pos[u], d)

\* The trader's open triggers after a fill of size d, and whether they go with it.
TriggersAfter(u, d) ==
  LET flat == pos[u] # 0 /\ pos[u] * d < 0 /\ Size(d) >= Size(pos[u])
  IN  [s \in Slots |-> IF flat /\ trigger[u][s].status = "OPEN"
                       THEN [trigger[u][s] EXCEPT !.status = "CANCELLED"] ELSE trigger[u][s]]

\* closePositionWithFill accepts it.
Reduces(u, d) == pos[u] * d < 0 /\ Size(d) <= Size(pos[u])

-----------------------------------------------------------------------------
(* createOrder. *)

\* Up to the transaction.  An order for the A-book is not followed further.
AskOpen(c, u) ==
  /\ ask[c].pc = "none" /\ Ask
  /\ \E n \in Lots, side \in {1, -1} :
       ask' = IF Decide(side * n)
              THEN [ask EXCEPT ![c] = [pc |-> "tx", kind |-> "open", user |-> u, delta |-> side * n]] ELSE ask
  /\ UNCHANGED <<pos, row, gate, trigger, stray, monitor, raced>>

\* A close or a liquidation takes the route of the position; while another market
\* close of the trader is live it is answered with that one.
AskClose(c, u) ==
  /\ ask[c].pc = "none" /\ pos[u] # 0 /\ ~stray[u] /\ Ask
  /\ \E n \in Lots :
       ask' = [ask EXCEPT ![c] = [pc |-> "tx", kind |-> "close", user |-> u, delta |-> IF pos[u] > 0 THEN -n ELSE n]]
  /\ UNCHANGED <<pos, row, gate, trigger, stray, monitor, raced>>

\* Mutant: the decision taken before the transaction stands.
DecidedBefore(delta) == TRUE

\* The second decision, under the advisory lock.
DecideAgain(delta) == Decide(delta)

\* Inside the transaction the route is decided again, for a close too.
OrderTx(c) ==
  LET u == ask[c].user
      d == ask[c].delta
  IN  /\ ask[c].pc = "tx"
      /\ ask' = [ask EXCEPT ![c] = NoAsk]
      /\ IF ~DecideAgain(d)
         THEN /\ stray' = [stray EXCEPT ![u] = @ \/ ask[c].kind = "close"]
              /\ UNCHANGED <<pos, row, trigger>>
         ELSE IF ask[c].kind = "close" /\ ~Reduces(u, d)
         THEN UNCHANGED <<pos, row, trigger, stray>>
         ELSE /\ Filled(u, d)
              /\ trigger' = [trigger EXCEPT ![u] = TriggersAfter(u, d)]
              /\ UNCHANGED stray
      /\ UNCHANGED <<gate, monitor, raced, asks>>

\* The order that left for the A-book ends there, without the position.
StrayEnds(u) ==
  /\ stray[u] /\ stray' = [stray EXCEPT ![u] = FALSE]
  /\ UNCHANGED <<pos, row, gate, ask, trigger, monitor, raced, asks>>

\* createPerpTriggerOrder: the position is read before the transaction.
AskTrigger(c, u) ==
  /\ ask[c].pc = "none" /\ pos[u] # 0 /\ Ask
  /\ \E n \in Lots :
       /\ n <= Size(pos[u])
       /\ ask' = [ask EXCEPT ![c] = [pc |-> "trigger", kind |-> "close", user |-> u, delta |-> IF pos[u] > 0 THEN -n ELSE n]]
  /\ UNCHANGED <<pos, row, gate, trigger, stray, monitor, raced>>

TriggerTx(c) ==
  /\ ask[c].pc = "trigger"
  /\ \E s \in Slots :
       /\ trigger[ask[c].user][s].status # "OPEN"
       /\ trigger' = [trigger EXCEPT ![ask[c].user][s] = [status |-> "OPEN", delta |-> ask[c].delta]]
  /\ ask' = [ask EXCEPT ![c] = NoAsk]
  /\ UNCHANGED <<pos, row, gate, stray, monitor, raced, asks>>

CancelTrigger(u) ==
  /\ \E s \in Slots : /\ trigger[u][s].status = "OPEN"
                      /\ trigger' = [trigger EXCEPT ![u][s].status = "CANCELLED"]
  /\ UNCHANGED <<pos, row, gate, ask, stray, monitor, raced, asks>>

-----------------------------------------------------------------------------
(* The matcher of triggers. *)

\* Mutant: only triggers whose position is open are looked at.
OrphanIgnored(u) == FALSE

\* The matcher cancels a trigger whose position is gone.
Orphan(u) == pos[u] = 0

DropOrphan(u, s) ==
  /\ trigger[u][s].status = "OPEN" /\ Orphan(u)
  /\ trigger' = [trigger EXCEPT ![u][s].status = "CANCELLED"]
  /\ UNCHANGED <<pos, row, gate, ask, stray, monitor, raced, asks>>

\* Mutant: a trigger larger than what is left of the position is executed.
FitsAnything(u, d) == TRUE

FitsPosition(u, d) == Reduces(u, d)

\* fillOpenPerpTriggerOrder, when the mark has reached the trigger: the siblings are
\* cancelled whether or not the trigger itself still fits the position.
Fire(u, s) ==
  LET d == trigger[u][s].delta
      fits == FitsPosition(u, d)
  IN  /\ trigger[u][s].status = "OPEN" /\ pos[u] # 0
      /\ trigger' = [trigger EXCEPT ![u] =
            [x \in Slots |-> IF x = s THEN [trigger[u][x] EXCEPT !.status = IF fits THEN "FILLED" ELSE "CANCELLED"]
                             ELSE IF trigger[u][x].status = "OPEN" THEN [trigger[u][x] EXCEPT !.status = "CANCELLED"]
                             ELSE trigger[u][x]]]
      /\ IF fits THEN Filled(u, d) ELSE UNCHANGED <<pos, row>>
      /\ UNCHANGED <<gate, ask, stray, monitor, raced, asks>>

-----------------------------------------------------------------------------
(* The risk monitor, the administrator and the market. *)
Longs  == Total([u \in Traders |-> Floor(pos[u])])
Shorts == Total([u \in Traders |-> Floor(-pos[u])])

MonitorReads ==
  /\ monitor.pc = "idle"
  /\ monitor' = [pc |-> "read", long |-> Longs, short |-> Shorts]
  /\ UNCHANGED <<pos, row, gate, ask, trigger, stray, raced, asks>>

\* A market without open positions is not written at all.
Written(m) == IF m.long + m.short = 0 THEN row ELSE [long |-> m.long, short |-> m.short]

\* The totals that were read are written; a drawdown pauses the book.
MonitorWrites ==
  /\ monitor.pc = "read"
  /\ row' = Written(monitor)
  /\ raced' = (raced \/ (monitor.long + monitor.short > 0 /\ <<monitor.long, monitor.short>> # <<Longs, Shorts>>))
  /\ \E drawdown \in BOOLEAN : gate' = [gate EXCEPT !.paused = @ \/ drawdown]
  /\ monitor' = [monitor EXCEPT !.pc = "idle"]
  /\ UNCHANGED <<pos, ask, trigger, stray, asks>>

\* PATCH /admin/risk/pause/bbook, and the data of the market.
GateMoves ==
  /\ \E b \in BOOLEAN : gate' = [gate EXCEPT !.paused = b] \/ gate' = [gate EXCEPT !.eligible = b]
  /\ UNCHANGED <<pos, row, ask, trigger, stray, monitor, raced, asks>>

BNext ==
  \/ \E c \in Calls : \/ OrderTx(c) \/ TriggerTx(c)
                      \/ \E u \in Traders : AskOpen(c, u) \/ AskClose(c, u) \/ AskTrigger(c, u)
  \/ \E u \in Traders : \/ StrayEnds(u) \/ CancelTrigger(u)
                        \/ \E s \in Slots : DropOrphan(u, s) \/ Fire(u, s)
  \/ MonitorReads \/ MonitorWrites \/ GateMoves

BSpec == BInit /\ [][BNext]_bvars

-----------------------------------------------------------------------------
(* Properties. *)

\* Until the monitor writes totals that are out of date, the exposure row is what
\* the open positions add up to, whatever opens, closes, turns round or triggers.
RowIsPositions == ~raced => row = [long |-> Longs, short |-> Shorts]

\* However many traders passed the first decision at once, an opening fill leaves the
\* platform's net position within the market cap (closing others' side may exceed it:
\* triggers do not ask the router).  Excepted once the monitor overwrote the row.
OpensWithinCap ==
  [][\A c \in Calls : OrderTx(c) /\ pos' # pos /\ ~raced =>
       Size(Total(pos')) <= MarketCap]_bvars

\* Closes and triggers were sized from an earlier position: none of them turns the
\* position round or enlarges it.
ClosesOnlyReduce ==
  [][\A u \in Traders :
       pos'[u] # pos[u] /\ ~(\E c \in Calls : ask[c].kind = "open" /\ ask[c].pc = "tx" /\ ask'[c].pc = "none")
         => pos[u] * pos'[u] >= 0 /\ Size(pos'[u]) < Size(pos[u])]_bvars

\* A trigger whose position is gone (it may have been written after the position was
\* closed) does not wait for the next position for ever.
OrphanEnds(u, s) ==
  trigger[u][s].status = "OPEN" /\ pos[u] = 0 ~> trigger[u][s].status # "OPEN" \/ pos[u] # 0

\* When trading stops with a position open, the row is right in the end even after a
\* lost update.
RowIsRight   == Longs + Shorts = 0 \/ row = [long |-> Longs, short |-> Shorts]
RowCatchesUp == <>[]RowIsRight
===============================================================================
