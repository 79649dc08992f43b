----------------------------- MODULE HedgeChecks -----------------------------
(***************************************************************************)
(* The books of the A-book against the omnibus position at Hyperliquid, for *)
(* one market: the check that pauses opening orders when they differ        *)
(* (reconciliation.service.ts), the offset it allows for, and the internal  *)
(* netting of closes, which writes that offset (orders.service.ts).  A fill *)
(* is at the exchange some time before it is in a user's position, and all  *)
(* three read the exchange and the database one after the other.            *)
(* How orders are placed and reconciled is the subject of PerpOrders; here  *)
(* a fill of either side may come for anyone, and execution is enabled.     *)
(***************************************************************************)
EXTENDS Integers, FiniteSets, FiniteSetsExt

CONSTANTS Traders,
          Checkers, \* calls of runProviderPositionsCheck
          Legacy,   \* what the omnibus account may hold at the start, and offsets set by hand
          Mixes     \* bounds: [fills, changes (of the offset by hand), faults, calls (at once)]

HedgeAssumption ==
  /\ IsFiniteSet(Traders) /\ Legacy \subseteq Int
  /\ Mixes \subseteq [fills : Nat, changes : Nat, faults : Nat, calls : SUBSET Checkers]

VARIABLES
  holding,  \* trader -> signed size of the open A-book position
  omnibus,  \* the position at the exchange
  late,     \* trader -> signed fills at the exchange that are not in the position yet
  offset,   \* the setting abook:provider-position-offset
  halted,   \* the setting abook:reconciliation-paused
  firstSeen,\* providerMismatchFirstSeenAt: "never", "now" or "before", 5 s or more ago
  check,    \* checker -> a runProviderPositionsCheck under way
  net,      \* the close that is being netted
  misled,   \* history: has the offset been written from readings that fills went between
  left      \* what the behaviour may still have of its mix
hedgeVars == <<holding, omnibus, late, offset, halted, firstSeen, check, net, misled, left>>

Size(n)    == IF n < 0 THEN -n ELSE n
Total(f)   == MapThenSumSet(LAMBDA u : f[u], Traders)
Idle       == [pc |-> "idle"]
Residual   == omnibus - Total(holding) - Total(late)

HedgeInit ==
  /\ holding = [u \in Traders |-> 0] /\ late = [u \in Traders |-> 0]
  /\ omnibus \in Legacy /\ offset = omnibus /\ halted = FALSE /\ firstSeen = "never"
  /\ check = [c \in Checkers |-> Idle] /\ net = Idle
  /\ misled = FALSE /\ left \in Mixes

Uses(kind) == left[kind] > 0 /\ left' = [left EXCEPT ![kind] = @ - 1]

-----------------------------------------------------------------------------
(* Orders.  A trader's fills on their way go in one direction. *)
Fill(u, side) ==
  /\ Uses("fills") /\ late[u] * side >= 0
  /\ omnibus' = omnibus + side /\ late' = [late EXCEPT ![u] = @ + side]
  /\ net' = IF net = Idle THEN net ELSE [net EXCEPT !.alone = FALSE]
  /\ UNCHANGED <<holding, offset, halted, firstSeen, check, misled>>

\* reconcileProviderOrder
Apply(u) ==
  LET side == IF late[u] > 0 THEN 1 ELSE -1
  IN  /\ late[u] # 0 /\ late' = [late EXCEPT ![u] = @ - side]
      /\ holding' = [holding EXCEPT ![u] = @ + side]
      /\ UNCHANGED <<omnibus, offset, halted, firstSeen, check, net, misled, left>>

\* applyExistingProviderHedgeCoverage reads the omnibus position for a close of n, or for a
\* liquidation.
NetSee(u, n, liquidation) ==
  /\ net = Idle /\ holding[u] # 0
  /\ net' = [pc |-> "seen", trader |-> u, seen |-> omnibus, closing |-> IF holding[u] > 0 THEN -n ELSE n,
             whole |-> liquidation, alone |-> \A v \in Traders : late[v] = 0]
  /\ UNCHANGED <<holding, omnibus, late, offset, halted, firstSeen, check, misled, left>>

\* How much of a close the gap between the two covers; a liquidation is covered wholly or not.
Covered(gap, closing, whole) ==
  IF Size(gap - closing) <= Size(gap) THEN closing
  ELSE IF gap * closing > 0 /\ ~(whole /\ Size(gap) < Size(closing))
  THEN IF Size(gap) < Size(closing) THEN gap ELSE closing
  ELSE 0

\* Mutant: what is left before the close.
ResidualBefore(seen, internal, covered) == seen - internal

\* nextProviderResidual
NextResidual(seen, internal, covered) == seen - (internal + covered)

\* Its transaction: the covered part is closed and the offset is what is left over.  The
\* rest is sent to the exchange, and fills there.
Net ==
  LET u       == net.trader
      covered == Covered(net.seen - Total(holding), net.closing, net.whole)
  IN  /\ net # Idle /\ net' = Idle
      /\ IF covered # 0 /\ holding[u] * covered < 0 /\ Size(covered) <= Size(holding[u])
         THEN /\ holding' = [holding EXCEPT ![u] = @ + covered]
              /\ offset' = NextResidual(net.seen, Total(holding), covered)
              /\ misled' = ~net.alone
         ELSE UNCHANGED <<holding, offset, misled>>
      /\ UNCHANGED <<omnibus, late, halted, firstSeen, check, left>>

\* setProviderPositionOffset, to any value.
SetOffset(n) ==
  /\ Uses("changes")
  /\ offset' = n /\ misled' = (n # Residual)
  /\ UNCHANGED <<holding, omnibus, late, halted, firstSeen, check, net>>

-----------------------------------------------------------------------------
(* runProviderPositionsCheck, by the cron every minute and by an administrator. *)
Step(c, state) == check' = [check EXCEPT ![c] = state]

Begin(c) ==
  /\ c \in left.calls /\ check[c] = Idle
  /\ Step(c, [pc |-> "asking", internal |-> Total(holding), seen |-> {}, allowed |-> {}])
  /\ UNCHANGED <<holding, omnibus, late, offset, halted, firstSeen, net, misled, left>>

\* getAccountState and getDecimalsByPrefix, which are asked at once.
SeeProvider(c) ==
  /\ check[c].pc = "asking" /\ check[c].seen = {} /\ Step(c, [check[c] EXCEPT !.seen = {omnibus}])
  /\ UNCHANGED <<holding, omnibus, late, offset, halted, firstSeen, net, misled, left>>

SeeOffset(c) ==
  /\ check[c].pc = "asking" /\ check[c].allowed = {} /\ Step(c, [check[c] EXCEPT !.allowed = {offset}])
  /\ UNCHANGED <<holding, omnibus, late, offset, halted, firstSeen, net, misled, left>>

\* Mutant: each check forgets what the one before has seen.
Forgotten(differs) == "never"

\* A difference is remembered from when it was first seen, and forgotten when it is gone.
Remembered(differs) == IF ~differs THEN "never" ELSE IF firstSeen = "never" THEN "now" ELSE firstSeen

\* A first difference is waited for; a lasting one halts opening orders, none lets them.
Compare(c) ==
  /\ check[c].pc = "asking" /\ check[c].seen # {} /\ check[c].allowed # {}
  /\ LET differs == {check[c].internal + n : n \in check[c].allowed} # check[c].seen
     IN  /\ firstSeen' = Remembered(differs)
         /\ Step(c, IF differs /\ firstSeen # "before" THEN Idle ELSE [pc |-> "write", halt |-> differs])
  /\ UNCHANGED <<holding, omnibus, late, offset, halted, net, misled, left>>

Write(c) ==
  /\ check[c].pc = "write" /\ halted' = check[c].halt /\ Step(c, Idle)
  /\ UNCHANGED <<holding, omnibus, late, offset, firstSeen, net, misled, left>>

\* A reading fails, and the run with it (runCheck).
CheckFails(c) ==
  /\ Uses("faults") /\ check[c].pc = "asking" /\ Step(c, Idle)
  /\ UNCHANGED <<holding, omnibus, late, offset, halted, firstSeen, net, misled>>

FiveSeconds ==
  /\ firstSeen = "now" /\ firstSeen' = "before"
  /\ UNCHANGED <<holding, omnibus, late, offset, halted, check, net, misled, left>>

Restart ==
  /\ Uses("faults")
  /\ firstSeen' = "never" /\ check' = [c \in Checkers |-> Idle] /\ net' = Idle
  /\ UNCHANGED <<holding, omnibus, late, offset, halted, misled>>

CheckStep(c) == SeeProvider(c) \/ SeeOffset(c) \/ Compare(c) \/ Write(c)
HedgeNext ==
  \/ \E u \in Traders : (\E side \in {1, -1} : Fill(u, side)) \/ Apply(u)
  \/ \E u \in Traders, b \in BOOLEAN : \E n \in 1 .. Size(holding[u]) : NetSee(u, n, b)
  \/ Net \/ (\E n \in Legacy : SetOffset(n))
  \/ \E c \in Checkers : Begin(c) \/ CheckStep(c) \/ CheckFails(c)
  \/ FiveSeconds \/ Restart

HedgeSpec == HedgeInit /\ [][HedgeNext]_hedgeVars

-----------------------------------------------------------------------------
\* What the check allows for is what the omnibus account holds beyond the users' positions
\* and their fills on the way, unless a close was netted against a position that counted
\* such fills, or the offset was set wrong (applyExistingProviderHedgeCoverage).
OffsetIsResidual == ~misled => offset = Residual

\* In the end opening orders are halted exactly if the books differ, although each check
\* compares readings of different moments, two may overlap and fills go on between
\* (runProviderPositionsCheck).
HaltIsRight         == halted <=> Total(holding) + offset # omnibus
HaltFollowsTheBooks == <>[]HaltIsRight
=============================================================================
