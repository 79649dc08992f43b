------------------------------- MODULE Platform -------------------------------
(***************************************************************************)
(* The smaller machines of the platform about which there are theorems: the *)
(* withdrawals the platform signs, those of BNB chain, wallets, sessions.   *)
(* They share no state.                                                     *)
(***************************************************************************)
EXTENDS SignedWithdrawals, BnbSends, Wallets, Sessions

\* A withdrawal the platform signs is paid as often as its user is charged, replaced
\* transactions, raised fees, crashes and the operator's scripts included
\* (broadcastNextApproved, confirmBroadcasted, sendWithdrawal); on BNB chain it is paid once,
\* and not after a refund that knew its outcome (sendFromWallet, requestBnbRpc).
SignedIsPaidFor == PaidAsCharged /\ BnbIsPaidFor

\* Wallets and sessions under overlapping calls: one primary wallet, keys that were shown,
\* nonces used once, the limit of external wallets (connectWallet, revokeWallet), and a
\* refresh token that is current is in somebody's hands (rotateRefreshToken).
AccountsAreTheirs == WalletsAreTheirs /\ TokensRotate
===============================================================================
