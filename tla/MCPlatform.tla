------------------------------ MODULE MCPlatform ------------------------------
(***************************************************************************)
(* The smaller machines of the platform, each checked for itself: the       *)
(* B-book, the books of the A-book against the exchange, the withdrawals    *)
(* the platform signs, those of BNB chain, wallets, sessions and the        *)
(* overview of an account.  A behaviour is of one of them, "part", and the  *)
(* others stay as they began.                                               *)
(***************************************************************************)
EXTENDS Platform, TLC

CONSTANTS ann, ben, k1, k2, b1, b2, s1, t1, d1, d2, x, y

VARIABLES part,
  pos, row, gate, ask, trigger, stray, monitor, overwritten, asks,                         \* BBook
  holding, omnibus, late, offset, halted, firstSeen, check, net, misled, left,            \* HedgeChecks
  mix, deposit, spent, mainnetOnly, pushed, unsaid, kept, chainKept, timer, reading, socket, shown, errors  \* Overviews

TwoTraders == {ann, ben}
TwoCalls   == {k1, k2}
OneSlot    == {1}
TwoLots    == {1, 2}
Book == INSTANCE BBook WITH
  Traders <- TwoTraders, Calls <- TwoCalls, Slots <- OneSlot, Lots <- TwoLots, OrderCap <- 2,
  MarketCap <- 2, MaxAsks <- 3, raced <- overwritten

MayHave(n, changes, mishap, calls) == [fills |-> n, changes |-> changes, faults |-> mishap, calls |-> calls]
ZeroOrOne == {0, 1}
\* Closes while two fills are on their way; checks while a fill is, or the offset is set
\* by hand, with a fault; two checks at once.
Hedges == {MayHave(2, 0, 0, {}), MayHave(1, 1, 1, {k1}), MayHave(0, 1, 0, {k1, k2})}
Hedge == INSTANCE HedgeChecks WITH
  Traders <- TwoTraders, Checkers <- TwoCalls, Legacy <- ZeroOrOne, Mixes <- Hedges

\* Two Bitcoin withdrawals that compete for coins, one of Tron, one of Solana.
FourDrafts == {b1, b2, s1, t1}
SomeMixes  == {{b1, b2}, {b1, t1}, {s1}}
Families   == (b1 :> "btc") @@ (b2 :> "btc") @@ (t1 :> "tron") @@ (s1 :> "sol")
TwoCoins   == <<4, 3>>

\* Two withdrawals of BNB chain at once, as two Bitcoin ones.
TwoJobs == {b1, b2}

EmbeddedKey == (ann :> x) @@ (ben :> y)

TwoDeposits == {d1, d2}
Scopes      == (d1 :> "main") @@ (d2 :> "test")
View(ds, moves, kinds, visits, errs, updates, snapshots, modes) ==
  [come |-> ds, spent |-> moves, kinds |-> kinds, visits |-> visits, errors |-> errs,
   for |-> (k1 :> updates) @@ (k2 :> snapshots), modes |-> modes]
Snapshots == {"initial", "snapshot"}
\* A posting that is announced too early or not at all, between readings; all that moves
\* the two balances, unseen; a page that is left and opened again; readings that fail.
Views == {View({d1}, 1, {"main"}, 1, 0, {"update"}, Snapshots, {FALSE}),
          View({d1, d2}, 3, {"main", "test", "convert", "gain"}, 0, 0, {}, {}, BOOLEAN),
          View({d1}, 0, {}, 2, 0, {"update"}, Snapshots, {FALSE}),
          View({d1}, 0, {}, 1, 1, {"update"}, Snapshots, {FALSE})}
Accounts == INSTANCE Overviews WITH
  Deposits <- TwoDeposits, Scope <- Scopes, Calls <- TwoCalls, Mixes <- Views, posted <- pushed, call <- reading

ASSUME Book!BBookAssumption /\ Hedge!HedgeAssumption
ASSUME Accounts!OverviewAssumption

bookVars   == <<pos, row, gate, ask, trigger, stray, monitor, overwritten, asks>>
hedgeVars  == <<holding, omnibus, late, offset, halted, firstSeen, check, net, misled, left>>
viewVars   == <<mix, deposit, spent, mainnetOnly, pushed, unsaid, kept, chainKept, timer, reading, socket, shown, errors>>

Init ==
  /\ part \in {"book", "hedge", "signed", "bnb", "wallets", "sessions", "overviews"}
  /\ Book!BInit /\ (part # "book" => ~gate.paused)
  /\ Hedge!HedgeInit /\ (part # "hedge" => omnibus = 0 /\ left = MayHave(2, 0, 0, {}))
  /\ SignedInit
  /\ part # "signed" => draft[s1].status = "APPROVED" /\ listing = "chain"
  /\ BnbInit /\ WalletInit /\ SessionInit
  /\ Accounts!OverviewInit /\ (part # "overviews" => mix.kinds = Accounts!Kinds /\ mainnetOnly)

Next ==
  \/ part = "book" /\ Book!BNext /\ UNCHANGED <<part, hedgeVars, signedVars, bnbVars, walletVars, sessionVars, viewVars>>
  \/ part = "hedge" /\ Hedge!HedgeNext
     /\ UNCHANGED <<part, bookVars, signedVars, bnbVars, walletVars, sessionVars, viewVars>>
  \/ part = "signed" /\ SignedNext /\ UNCHANGED <<part, bookVars, hedgeVars, bnbVars, walletVars, sessionVars, viewVars>>
  \/ part = "bnb" /\ BnbNext /\ UNCHANGED <<part, bookVars, hedgeVars, signedVars, walletVars, sessionVars, viewVars>>
  \/ part = "wallets" /\ WalletNext /\ UNCHANGED <<part, bookVars, hedgeVars, signedVars, bnbVars, sessionVars, viewVars>>
  \/ part = "sessions" /\ SessionNext /\ UNCHANGED <<part, bookVars, hedgeVars, signedVars, bnbVars, walletVars, viewVars>>
  \/ part = "overviews" /\ Accounts!OverviewNext /\ UNCHANGED <<part, bookVars, hedgeVars, signedVars, bnbVars, walletVars, sessionVars>>

vars == <<part, bookVars, hedgeVars, signedVars, bnbVars, walletVars, sessionVars, viewVars>>

\* The variables of the part a behaviour is of.
moving ==
  CASE part = "book" -> bookVars [] part = "hedge" -> hedgeVars [] part = "signed" -> signedVars
    [] part = "bnb" -> bnbVars [] part = "overviews" -> viewVars [] OTHER -> <<walletVars, sessionVars>>

\* As a behaviour is of one part, one condition may stand for one of each.
PlatformSpec ==
  /\ Init /\ [][Next]_vars
  /\ WF_moving(UNCHANGED part /\ (\/ part = "book" /\ Book!MonitorReads
                                  \/ part = "hedge" /\ Hedge!Apply(ann)
                                  \/ part = "signed" /\ WorkerStep
                                  \/ part = "bnb" /\ MineNext
                                  \/ part = "overviews" /\ \E d \in TwoDeposits : Accounts!Onward(d)))
  /\ WF_moving(UNCHANGED part /\ (\/ part = "book" /\ Book!MonitorWrites
                                  \/ part = "hedge" /\ Hedge!Apply(ben)
                                  \/ part = "bnb" /\ Sending
                                  \/ part = "overviews" /\ Accounts!AnnounceNext))
  /\ WF_moving(UNCHANGED part /\ (\/ part = "book" /\ \E u \in TwoTraders, s \in OneSlot : Book!DropOrphan(u, s)
                                  \/ part = "hedge" /\ Hedge!Net
                                  \/ part = "bnb" /\ \E w \in TwoJobs : Worker(w)
                                  \/ part = "overviews" /\ Accounts!Expire))
  /\ WF_moving(UNCHANGED part /\ (\/ part = "hedge" /\ Hedge!FiveSeconds
                                  \/ part = "overviews" /\ Accounts!ExpireChain))
  /\ WF_moving(UNCHANGED part /\ (\/ part = "hedge" /\ Hedge!Begin(k1)
                                  \/ part = "overviews" /\ \E c \in TwoCalls : Accounts!Update(c)))
  /\ \A c \in TwoCalls :
       WF_moving(UNCHANGED part /\ (\/ part = "hedge" /\ Hedge!CheckStep(c)
                                    \/ part = "overviews" /\ Accounts!Overview(c)))
  /\ SF_moving(UNCHANGED part /\ part = "overviews" /\ \E c \in TwoCalls : Accounts!Fallback(c))

-----------------------------------------------------------------------------

\* Fills, closes and triggers of two traders sized from earlier positions, and a monitor that
\* writes the exposure row from what it read before: the row is what the positions add up
\* to until such a late write, no opening order takes the platform beyond the market's cap,
\* and no close or trigger turns a position round (createOrder, fillOpenPerpTriggerOrder).
\* A trigger whose position is gone does not wait for the next one, and when trading stops
\* the exposure row is right in the end, late writes or not (matchOpenPerpTriggerOrders,
\* monitor); that is asked of one trader.
\* On the A-book, what the check of positions allows for is what the omnibus account holds
\* beyond the users' positions, and where a check runs, opening orders are halted in the end
\* exactly if the books differ (applyExistingProviderHedgeCoverage, runProviderPositionsCheck).
BookKeepsItsLimits ==
  /\ []Hedge!OffsetIsResidual
  /\ []Book!RowIsPositions /\ Book!OpensWithinCap /\ Book!ClosesOnlyReduce
  /\ part = "book" => Book!OrphanEnds(ann, 1)
  /\ <>[]((part = "book" => Book!RowIsRight) /\ (part = "hedge" /\ left.calls # {} => Hedge!HaltIsRight))

\* Under fairness of the worker it is sent or refunded, and what was mined or failed is
\* settled or refunded (recoverInterruptedBroadcasting, confirmBroadcasted); asked of one
\* Bitcoin withdrawal, and of one of BNB chain unless another transaction takes its nonce.
SignedSettles ==
  /\ part = "signed" => IsSent(b2)
  /\ part = "bnb" => BnbSettles(b2)

\* What an update pushes is current, the balances that withdrawals and conversions look at do
\* not let more be spent together than came in, and a client that stays connected shows in
\* the end what is there (emitUserUpdate, getUserMainnetSpotBalance, getOverview with its
\* two caches, handleConnection).
ShownIsThere ==
  /\ []Accounts!PushesAreCurrent /\ []Accounts!OnlyOwnIsSpent
  /\ part = "overviews" => Accounts!ShownCatchesUp
===============================================================================
