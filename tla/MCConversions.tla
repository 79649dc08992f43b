---------------------------- MODULE MCConversions ----------------------------
(***************************************************************************)
(* Values of the constants of Conversions for the model checker.  A         *)
(* behaviour stays in one of two scopes, which bound the quotes that are    *)
(* asked for, the processes that run and the faults.                        *)
(***************************************************************************)
EXTENDS Conversions, TLC

CONSTANTS q1, q2, q3, q4, q5, r1, r2, r3, r4, r5, r6, alice, bob, i1, i2, i3,
          usd, tok, eth

VARIABLE scope

SomeAssets == {usd, tok, eth}
ToEth == [user |-> alice, from |-> usd, to |-> eth, amount |-> 4,
          gross |-> 4, min |-> 2, value |-> 4, reserve |-> FALSE]
Small == [ToEth EXCEPT !.reserve = TRUE, !.amount = 2]
Offers  == (q1 :> Small) @@ (q2 :> Small) @@ (q3 :> [ToEth EXCEPT !.to = tok])
             @@ (q4 :> ToEth) @@ (q5 :> [ToEth EXCEPT !.user = bob])
Quoted  == (r1 :> q1) @@ (r2 :> q1) @@ (r3 :> q2) @@ (r4 :> q3) @@ (r5 :> q4) @@ (r6 :> q5)
Clients == (r1 :> i1) @@ (r2 :> i2) @@ (r3 :> i2) @@ (r4 :> i3) @@ (r5 :> i1) @@ (r6 :> i1)
Wallets == [u \in {alice, bob} |-> [a \in SomeAssets |-> IF a = usd THEN 5 ELSE 0]]

\* Two users swap for the same coin in one process that may fail three times; one user's
\* quote executed under two ids, an id used for two quotes, and a balance that covers only
\* some of the conversions, in two processes.
Scopes ==
  {[quotes |-> {q4, q5}, processes |-> {1}, outputs |-> {0, 2, 4}, crashes |-> 3],
   [quotes |-> {q1, q2, q3}, processes |-> {1, 2}, outputs |-> {0, 4}, crashes |-> 1]}

Within ==
  /\ \A q \in Quotes \ scope.quotes : quote[q] = "ABSENT" /\ q \notin expired
  /\ \A r \in calls : QuoteOf[r] \in scope.quotes
  /\ \A p \in Workers \ scope.processes : At(p, "idle")
  /\ \A r \in Requests : brought[r] \in scope.outputs
  /\ faults <= scope.crashes

ScopedInit == scope \in Scopes /\ Init /\ Within
ScopedNext == Next /\ UNCHANGED scope /\ Within'

\* The fairness of Conversions for the processes that run.
ScopedSpec ==
  /\ ScopedInit /\ [][ScopedNext]_<<vars, scope>>
  /\ \A p \in Workers : WF_vars(p \in scope.processes /\ Process(p))

\* Of one of the two swaps: once mined its conversion is finished, unless its attempt was cut
\* short; the other does not hold the worker up (runWorker takes the oldest first).
CoinIsDelivered == MinedIsFinished(r5)
===============================================================================
