------------------------------ MODULE Overviews ------------------------------
(***************************************************************************)
(* What a user is shown of one asset: the overview with its caches          *)
(* (account.service.ts), the balance of the mainnet scope                   *)
(* (ledger.service.ts) and the pushes over the private socket               *)
(* (private-realtime.gateway.ts, user-updates.service.ts).  An overview is  *)
(* put together from readings made at different times and kept for a while, *)
(* and so is the balance of the personal deposit address; a posting is      *)
(* announced before or after it is committed, or not at all.                *)
(* Each deposit and each spending is of one unit.  Prices, orders and       *)
(* positions in the overview are left out.                                  *)
(***************************************************************************)
EXTENDS Integers, FiniteSets

CONSTANTS Deposits, Scope,                      \* Scope[d]: "main" or "test"
          Calls,
          Mixes   \* bounds: [come, spent, kinds, visits, errors, for, modes], what a behaviour may hold

\* What moves the balance beside deposits: withdrawals of each scope, conversions from the
\* asset and into it.
Kinds == {"main", "test", "convert", "gain"}

OverviewAssumption ==
  /\ IsFiniteSet(Deposits) /\ Scope \in [Deposits -> {"main", "test"}]
  /\ \A m \in Mixes : /\ m.come \subseteq Deposits /\ m.kinds \subseteq Kinds
                      /\ {m.spent, m.visits, m.errors} \subseteq Nat /\ m.modes \subseteq BOOLEAN
                      /\ m.for \in [Calls -> SUBSET {"update", "initial", "snapshot"}]

VARIABLES
  mix,       \* what this behaviour may hold, of Mixes
  deposit,   \* deposit -> "none", "onchain", "pending", "crediting", "credited", "swept"
  spent,     \* what was moved: [main, test |-> withdrawn, convert, gain |-> converted from, into]
  mainnetOnly,
  posted,    \* postings made
  unsaid,    \* postings that are committed and not announced yet
  kept,      \* overviewCache
  chainKept, \* depositOnChainCache
  timer,     \* the debounce timer of the user runs
  call,      \* call -> a getOverview under way
  socket,    \* [visit, on, interval]: the client's connection
  shown,     \* what the client shows
  errors
overviewVars == <<mix, deposit, spent, mainnetOnly, posted, unsaid, kept, chainKept, timer, call, socket, shown, errors>>

Nothing == [has |-> FALSE, fresh |-> FALSE]
Kept(v) == [has |-> TRUE, fresh |-> TRUE, value |-> v]
Blank   == [available |-> 0, pending |-> 0]
Idle    == [pc |-> "idle"]

OverviewInit ==
  /\ deposit = [d \in Deposits |-> "none"] /\ spent = [kind \in Kinds |-> 0]
  /\ mix \in Mixes /\ mainnetOnly \in mix.modes /\ posted = 0 /\ unsaid = {}
  /\ kept = Nothing /\ chainKept = Nothing /\ timer = FALSE
  /\ call = [c \in Calls |-> Idle]
  /\ socket = [visit |-> 0, on |-> FALSE, interval |-> FALSE] /\ shown = Blank /\ errors = 0

-----------------------------------------------------------------------------
In(scope, states) == Cardinality({d \in Deposits : Scope[d] = scope /\ deposit[d] \in states})
Credited(scope)   == In(scope, {"credited", "swept"})
Pending(scope)    == In(scope, {"pending", "crediting"})
OnChain(scope)    == In(scope, {"onchain", "pending", "crediting", "credited"})
Both(Of(_), main) == IF main THEN Of("main") ELSE Of("main") + Of("test")

\* getUserSpotBalance
Full == Both(Credited, FALSE) + spent.gain - spent.main - spent.test - spent.convert

\* Mutant: what came in on mainnet is not held against the balance.
AllOfMain(full, testIn, testOut, mainIn) ==
  LET mainOnly == full - (testIn - testOut) IN IF mainOnly >= 0 THEN mainOnly ELSE mainIn

\* getUserMainnetSpotBalance: what is left without the net of the test networks.
MainnetPart(full, testIn, testOut, mainIn) ==
  LET mainOnly == full - (testIn - testOut)
      visible  == IF mainIn > full THEN full ELSE mainIn
  IN  IF mainOnly >= 0 THEN mainOnly ELSE IF visible < 0 THEN 0 ELSE visible

\* sumActiveWithdrawalSpotExposure and sumMainnetConversionTradeCredits
TestWithdrawn == spent.test
Gained        == spent.gain

Mainnet   == MainnetPart(Full, Credited("test"), TestWithdrawn, Credited("main") + Gained)
Available == IF mainnetOnly THEN Mainnet ELSE Full

Unchanged == UNCHANGED <<mainnetOnly, kept, chainKept, timer, call, socket, shown, errors>>

-----------------------------------------------------------------------------
(* The services. *)
\* A transfer arrives, is recorded, and its funds leave the personal address later.
Arrive(d) ==
  /\ d \in mix.come /\ deposit[d] = "none" /\ deposit' = [deposit EXCEPT ![d] = "onchain"]
  /\ UNCHANGED <<mix, spent, posted, unsaid>> /\ Unchanged
Detect(d) ==
  /\ deposit[d] = "onchain" /\ deposit' = [deposit EXCEPT ![d] = "pending"]
  /\ UNCHANGED <<mix, spent, posted, unsaid>> /\ Unchanged
SweepOut(d) ==
  /\ deposit[d] = "credited" /\ deposit' = [deposit EXCEPT ![d] = "swept"]
  /\ UNCHANGED <<mix, spent, posted, unsaid>> /\ Unchanged

\* publish: both listeners are called, the account's and the gateway's.
Announced == kept' = Nothing /\ timer' = TRUE

\* creditDeposit announces the credit inside its transaction, which commits after that.
AnnounceCredit(d) ==
  /\ deposit[d] = "pending" /\ deposit' = [deposit EXCEPT ![d] = "crediting"]
  /\ Announced
  /\ UNCHANGED <<mix, spent, mainnetOnly, posted, unsaid, chainKept, call, socket, shown, errors>>

CommitCredit(d) ==
  /\ deposit[d] = "crediting" /\ deposit' = [deposit EXCEPT ![d] = "credited"]
  /\ posted' = posted + 1
  /\ UNCHANGED <<mix, spent, unsaid>> /\ Unchanged

\* createWithdrawal checks what is available in the deployment's mode and announces nothing;
\* execute checks the mainnet balance and announces after it has committed.
Spend(kind) ==
  /\ spent.main + spent.test + spent.convert + spent.gain < mix.spent /\ kind \in mix.kinds
  /\ kind = "convert" => Mainnet >= 1
  /\ kind \in {"main", "test"} => Available >= 1
  /\ kind = "test" => ~mainnetOnly
  /\ spent' = [spent EXCEPT ![kind] = @ + 1] /\ posted' = posted + 1
  /\ unsaid' = IF kind \in {"convert", "gain"} THEN unsaid \cup {posted + 1} ELSE unsaid
  /\ UNCHANGED <<mix, deposit>> /\ Unchanged

Announce(n) ==
  /\ n \in unsaid /\ unsaid' = unsaid \ {n} /\ Announced
  /\ UNCHANGED <<mix, deposit, spent, mainnetOnly, posted, chainKept, call, socket, shown, errors>>

-----------------------------------------------------------------------------
(* getOverview. *)
\* Mutant: an update is answered from the cache.
AlwaysFromCache(for) == kept.fresh

\* A snapshot may be answered from the cache; an update empties it first.
FromCache(for) == for # "update" /\ kept.fresh

\* The rows and the ledger are read at once, and the balance on chain if it is kept.
Read(for, visit) ==
  [pc |-> "read", for |-> for, visit |-> visit, current |-> TRUE, chain |-> chainKept.fresh,
   value |-> [available |-> Available, pending |-> Both(Pending, mainnetOnly), at |-> posted],
   onChain |-> IF chainKept.fresh THEN chainKept.value ELSE 0]

Start(c, for, visit) ==
  /\ for \in mix.for[c] /\ call[c] = Idle
  /\ call' = [call EXCEPT ![c] =
                IF FromCache(for)
                THEN [Read(for, visit) EXCEPT !.pc = "reply", !.value = kept.value, !.current = kept.value.at = posted]
                ELSE Read(for, visit)]

\* getOnChainBalances: what is at the addresses.
AtAddresses == Both(OnChain, mainnetOnly)

\* An endpoint that fails counts as nothing (getTokenBalance, getNonEvmBalance).
Unavailable == 0

\* getPersonalDepositOnChainSnapshot: what was read is kept, the failures too; when the
\* reading throws, what was kept before serves, however old.
ReadChain(c) ==
  /\ call[c].pc = "read" /\ ~call[c].chain
  /\ LET Take(amount) == call' = [call EXCEPT ![c].chain = TRUE, ![c].onChain = amount]
         Keep(amount) == Take(amount) /\ chainKept' = Kept(amount)
     IN  \/ Keep(AtAddresses) /\ UNCHANGED errors
         \/ /\ errors < mix.errors /\ errors' = errors + 1
            /\ \/ Keep(Unavailable)
               \/ Take(IF chainKept.has THEN chainKept.value ELSE 0) /\ UNCHANGED chainKept
  /\ UNCHANGED <<mix, deposit, spent, mainnetOnly, posted, unsaid, kept, timer, socket, shown>>

\* What is at the address beyond the balance and the recorded deposits counts as pending.
Combined(r) ==
  LET known == r.value.available + r.value.pending
  IN  [r.value EXCEPT !.pending = IF r.onChain > known THEN @ + (r.onChain - known) ELSE @]

\* The sockets of the user are told of an update; a snapshot goes to the one it is for.
Shows(v)        == [available |-> v.available, pending |-> v.pending]
ToRoom(v)       == shown' = IF socket.on THEN Shows(v) ELSE shown
ToSocket(r)     == shown' = IF socket.on /\ socket.visit = r.visit THEN Shows(r.value) ELSE shown

\* Mutant: the interval is not started.
NeverJoined(r) == UNCHANGED socket

\* handleConnection goes on to its interval, whatever became of the first snapshot.
Joined(r) ==
  socket' = [socket EXCEPT !.interval = @ \/ (r.for = "initial" /\ socket.on /\ socket.visit = r.visit)]

\* writeOverviewCache; an update is pushed at once, a snapshot waits for its other parts.
Finish(c) ==
  /\ call[c].pc = "read" /\ call[c].chain
  /\ LET v == Combined(call[c])
     IN  /\ kept' = Kept(v)
         /\ IF call[c].for = "update"
            THEN ToRoom(v) /\ call' = [call EXCEPT ![c] = Idle]
            ELSE call' = [call EXCEPT ![c] = [call[c] EXCEPT !.pc = "reply", !.value = v]] /\ UNCHANGED shown
  /\ UNCHANGED <<mix, deposit, spent, mainnetOnly, posted, unsaid, chainKept, timer, socket, errors>>

Reply(c) ==
  /\ call[c].pc = "reply" /\ ToSocket(call[c]) /\ Joined(call[c])
  /\ call' = [call EXCEPT ![c] = Idle]
  /\ UNCHANGED <<mix, deposit, spent, mainnetOnly, posted, unsaid, kept, chainKept, timer, errors>>

\* A query fails: the section is left out.
ReadFails(c) ==
  /\ call[c].pc = "read" /\ errors < mix.errors /\ errors' = errors + 1
  /\ Joined(call[c]) /\ call' = [call EXCEPT ![c] = Idle]
  /\ UNCHANGED <<mix, deposit, spent, mainnetOnly, posted, unsaid, kept, chainKept, timer, shown>>

-----------------------------------------------------------------------------
(* The gateway. *)
\* The debounce timer runs out: emitUserUpdate.
Update(c) ==
  /\ timer /\ timer' = FALSE /\ kept' = Nothing /\ Start(c, "update", 0)
  /\ UNCHANGED <<mix, deposit, spent, mainnetOnly, posted, unsaid, chainKept, socket, shown, errors>>

\* A new page of the client connects.
Connect(c) ==
  /\ ~socket.on /\ socket.visit < mix.visits
  /\ socket' = [visit |-> socket.visit + 1, on |-> TRUE, interval |-> FALSE] /\ shown' = Blank
  /\ Start(c, "initial", socket.visit + 1)
  /\ UNCHANGED <<mix, deposit, spent, mainnetOnly, posted, unsaid, kept, chainKept, timer, errors>>

Disconnect ==
  /\ socket.on /\ socket' = [socket EXCEPT !.on = FALSE, !.interval = FALSE]
  /\ UNCHANGED <<mix, deposit, spent, mainnetOnly, posted, unsaid, kept, chainKept, timer, call, shown, errors>>

\* The interval's snapshot.
Fallback(c) ==
  /\ socket.on /\ socket.interval /\ Start(c, "snapshot", socket.visit)
  /\ UNCHANGED <<mix, deposit, spent, mainnetOnly, posted, unsaid, kept, chainKept, timer, socket, shown, errors>>

Expire ==
  /\ kept.fresh /\ kept' = Nothing
  /\ UNCHANGED <<mix, deposit, spent, mainnetOnly, posted, unsaid, chainKept, timer, call, socket, shown, errors>>

ExpireChain ==
  /\ chainKept.fresh /\ chainKept' = [chainKept EXCEPT !.fresh = FALSE]
  /\ UNCHANGED <<mix, deposit, spent, mainnetOnly, posted, unsaid, kept, timer, call, socket, shown, errors>>

Services ==
  \/ \E d \in Deposits : Arrive(d) \/ Detect(d) \/ SweepOut(d) \/ AnnounceCredit(d) \/ CommitCredit(d)
  \/ \E kind \in Kinds : Spend(kind)
  \/ \E n \in unsaid : Announce(n)
Onward(d)    == Detect(d) \/ AnnounceCredit(d) \/ CommitCredit(d) \/ SweepOut(d)
AnnounceNext == \E n \in unsaid : Announce(n)
Overview(c) == ReadChain(c) \/ Finish(c) \/ Reply(c)
Gateway(c)  == Update(c) \/ Connect(c) \/ Fallback(c)
OverviewNext == Services \/ (\E c \in Calls : Overview(c) \/ ReadFails(c) \/ Gateway(c)) \/ Disconnect \/ Expire \/ ExpireChain

OverviewSpec == OverviewInit /\ [][OverviewNext]_overviewVars

-----------------------------------------------------------------------------
\* What an update pushes was read after the update was due, whatever slower readings put
\* into the cache in between (emitUserUpdate, invalidateOverviewCache, writeOverviewCache).
PushesAreCurrent ==
  \A c \in Calls : call[c] # Idle /\ call[c].for = "update" => call[c].current

\* Withdrawals and conversions that look at different balances do not spend more than was
\* credited together, as long as no more was withdrawn on test networks than came in
\* there (getUserMainnetSpotBalance, assertSufficientUserSpotBalance).
OnlyOwnIsSpent == spent.test <= Credited("test") => Full >= 0 /\ Mainnet <= Full

\* A client that stays connected shows in the end what is there, though a credit is
\* announced before it is committed and a withdrawal not at all, readings overlap with
\* postings and with one another, and both caches keep what they were given.
ShownCatchesUp ==
  <>[](socket.on => shown.available = Available /\ shown.pending = 0)
=============================================================================
