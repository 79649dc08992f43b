--------------------------- MODULE MCDepositTargets ---------------------------
(***************************************************************************)
(* What is safe about deposits: those of one token (Deposits), and the      *)
(* contracts an administrator lets them be made to (AssetContracts).  A     *)
(* behaviour is of one of the two, "part", and the other stays as it began. *)
(***************************************************************************)
EXTENDS MCDeposits, AssetContracts

CONSTANTS u1, u2, k1, k2

VARIABLE part

OneOrOther == (k1 :> {"verify", "bulkVerify"}) @@ (k2 :> {"transfers", "bulkEnable"})

\* A network starts open or closed to both directions, a main network open; an asset starts
\* with its token or without one, and gets the wrong one by an upsert.
TargetInit ==
  /\ part \in {"deposits", "assets"} /\ Init
  /\ ContractInit /\ network.deposit = network.withdrawal
  /\ (network.mainnet => network.deposit /\ hot) /\ asset.token # u2
  /\ part # "assets" => network.mainnet /\ network.deposit /\ hot /\ asset.token = u1

\* Bound: in one behaviour either a reorganisation or a sender found to be internal.
OneUpset == reorged' = {} \/ known' = {}

TargetNext ==
  \/ part = "deposits" /\ Next /\ OneUpset /\ UNCHANGED <<part, contractVars>>
  \/ part = "assets" /\ ContractNext /\ UNCHANGED <<part, vars>>

TargetSpec == TargetInit /\ [][TargetNext]_<<part, vars, contractVars>>
===============================================================================
