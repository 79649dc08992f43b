---------------------------- MODULE MCWithdrawals ----------------------------
(***************************************************************************)
(* Values of the constants of Withdrawals for the model checker.  Alice     *)
(* withdraws w1 to an outside address and w2 to a deposit address of bob's, *)
(* who has nothing until then and withdraws w3.  A behaviour stays in one   *)
(* of three scopes, which bound what may be asked for, which processes run  *)
(* and how many faults there are.  What must eventually happen is asked of  *)
(* w1 only, which each scope has.                                           *)
(***************************************************************************)
EXTENDS Withdrawals, TLC

CONSTANTS w1, w2, w3, alice, bob, api, script

VARIABLE scope

\* postTransaction never refuses what the withdrawal service posts.
ASSUME EntriesBalanced == \A k \in Keys : Balanced(EntriesOf[k])

ManyOwner     == (w1 :> alice) @@ (w2 :> alice) @@ (w3 :> bob)
ManyRecipient == (w1 :> External) @@ (w2 :> bob) @@ (w3 :> External)
ManyAmount    == (w1 :> 3) @@ (w2 :> 2) @@ (w3 :> 1)
ManyFee       == (w1 :> 1) @@ (w2 :> 1) @@ (w3 :> 0)
ManyFunding   == (alice :> 5) @@ (bob :> 0)

Scope(asked, ops, processes, limits, crashes) ==
  [asked |-> asked, ops |-> ops \cup {"request"}, processes |-> processes,
   limits |-> limits, crashes |-> crashes]

\* One withdrawal, every decision and two faults; one withdrawal in the hands of two
\* processes; the money of several withdrawals and an internal transfer.
Scopes ==
  {Scope({w1}, {"approve", "reject", "cancel"}, {api}, {0, 2}, 2),
   Scope({w1}, {"approve"}, {api, script}, {2}, 1),
   Scope({w1, w2, w3}, {"approve"}, {api}, {2}, 0)}

Within ==
  /\ \A c \in calls : c.w \in scope.asked /\ c.op \in scope.ops
  /\ \A p \in Workers \ scope.processes : worker[p] = At("idle")
  /\ threshold \in scope.limits
  /\ faults <= scope.crashes

ScopedInit == scope \in Scopes /\ Init /\ Within
ScopedNext == Next /\ UNCHANGED scope /\ Within'

\* The fairness of Withdrawals for the processes that run.
ScopedSpec ==
  /\ ScopedInit /\ [][ScopedNext]_<<vars, scope>>
  /\ \A p \in Workers : WF_vars(p \in scope.processes /\ WorkerStep(p))
  /\ \A w \in Withdrawals : WF_vars(GraceElapses(w))

\* Of the withdrawal every scope has: the interrupt recovery or the provider's answer takes
\* it out of BROADCASTING (recoverInterruptedBroadcasting), and once its transfer is mined it
\* reaches a final status (confirmBroadcasted).
LargeEnds == BroadcastingEnds(w1) /\ MinedIsFinished(w1)
==============================================================================
