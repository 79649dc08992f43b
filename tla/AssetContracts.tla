---------------------------- MODULE AssetContracts ----------------------------
(***************************************************************************)
(* An asset's token contracts on one EVM network (assets.service.ts) and    *)
(* the services that rely on them: deposits, deposit addresses, the indexer *)
(* and withdrawals.  A contract is checked on chain between two requests to *)
(* the database, and written to by its id; an administrator may have given  *)
(* it another address by then.  A token stands for an address together with *)
(* the decimals that were entered for it.                                   *)
(***************************************************************************)
EXTENDS Naturals, FiniteSets

CONSTANTS Tokens, NoToken,
          Proper,    \* the tokens with code, the asset's symbol and the entered decimals
          Requests,
          KindsOf,   \* bound: the kinds of requests each of them is used for
          MaxEdits   \* bound: upserts of each contract

ASSUME ContractAssumption ==
  /\ Proper \subseteq Tokens /\ NoToken \notin Tokens /\ MaxEdits \in Nat
  /\ KindsOf \in [Requests -> SUBSET {"verify", "transfers", "bulkVerify", "bulkEnable"}]

Standards == {"native", "erc20"}

VARIABLES
  asset,     \* the asset's own [token, verified, checked]
  network,   \* [mainnet, deposit, withdrawal]
  contract,  \* standard -> the row; "checked" is the token whose code hash it has
  hot,       \* is there an active withdrawal wallet
  edit,      \* standard -> upserts made
  call,      \* call -> a request under way
  overtaken, \* rows written to from what was read before an upsert
  borrowed   \* rows whose transfers were enabled on the asset's own verification
contractVars == <<asset, network, contract, hot, edit, call, overtaken, borrowed>>

NoRequest == [pc |-> "idle"]
Row(there, token) ==
  [there |-> there, token |-> token, verified |-> FALSE, checked |-> NoToken, deposit |-> FALSE, withdrawal |-> FALSE]

\* create: the asset and, if it has an address, the contract of its chain.
ContractInit ==
  /\ network \in [mainnet : BOOLEAN, deposit : BOOLEAN, withdrawal : BOOLEAN] /\ hot \in BOOLEAN
  /\ \E t \in Tokens \cup {NoToken} :
       /\ asset = [token |-> t, verified |-> FALSE, checked |-> NoToken]
       /\ contract = [s \in Standards |-> Row(s = "erc20" /\ t # NoToken, IF s = "erc20" THEN t ELSE NoToken)]
  /\ edit = [s \in Standards |-> 0] /\ call = [c \in Requests |-> NoRequest]
  /\ overtaken = {} /\ borrowed = {}

-----------------------------------------------------------------------------
(* Administration. *)
\* Mutants: what was found out about the old address stays; the transfers stay enabled.
StillChecked(row, token) == [Row(TRUE, token) EXCEPT !.verified = row.verified, !.checked = row.checked]
StillEnabled(row, token) == [Row(TRUE, token) EXCEPT !.deposit = row.deposit, !.withdrawal = row.withdrawal]

\* upsertTokenContract
Upserted(row, token) == Row(TRUE, token)

Upsert(s, token) ==
  /\ edit[s] < MaxEdits /\ (s = "native" <=> token = NoToken)
  /\ contract' = [contract EXCEPT ![s] = Upserted(@, token)]
  /\ edit' = [edit EXCEPT ![s] = @ + 1]
  /\ overtaken' = overtaken \ {s} /\ borrowed' = borrowed \ {s}
  /\ UNCHANGED <<asset, network, hot, call>>

Overtakes(s, at) == overtaken' = IF edit[s] # at THEN overtaken \cup {s} ELSE overtaken
Ends(c)          == call' = [call EXCEPT ![c] = NoRequest]

\* verifyContract, of the contract of a named network or of the asset's own chain.
Verify(c, named) ==
  LET row   == contract["erc20"]
      token == IF row.there THEN row.token ELSE asset.token
  IN  /\ call[c] = NoRequest /\ "verify" \in KindsOf[c] /\ (named => row.there) /\ token # NoToken
      /\ call' = [call EXCEPT ![c] = [pc |-> "verify", named |-> named, there |-> row.there,
                                      token |-> token, edit |-> edit["erc20"]]]
      /\ UNCHANGED <<asset, network, contract, hot, edit, overtaken, borrowed>>

Checked(row, token) == [row EXCEPT !.verified = TRUE, !.checked = token]

Verified(c) ==
  /\ call[c].pc = "verify" /\ Ends(c)
  /\ IF call[c].token \notin Proper
     THEN UNCHANGED <<asset, contract, overtaken>>
     ELSE /\ asset' = IF call[c].named THEN asset ELSE Checked(asset, call[c].token)
          /\ IF call[c].there
             THEN /\ contract' = [contract EXCEPT !["erc20"] = Checked(@, call[c].token)]
                  /\ Overtakes("erc20", call[c].edit)
             ELSE UNCHANGED <<contract, overtaken>>
  /\ UNCHANGED <<network, hot, edit, borrowed>>

\* Mutant: transfers are enabled whatever was found out.
Unasked(row) == TRUE

\* The contract's verification or, where it has none, the asset's.
IsVerified(row) == row.verified \/ asset.verified

\* updateTransfers.  The flags of the asset itself, which change too, are only shown.
UpdateTransfers(c, deposit, withdrawal) ==
  LET row == contract["erc20"]
  IN  /\ call[c] = NoRequest /\ "transfers" \in KindsOf[c] /\ row.there
      /\ deposit \/ withdrawal => IsVerified(row)
      /\ call' = [call EXCEPT ![c] = [pc |-> "transfers", deposit |-> deposit, withdrawal |-> withdrawal,
                                      borrows |-> ~row.verified /\ asset.verified, edit |-> edit["erc20"]]]
      /\ UNCHANGED <<asset, network, contract, hot, edit, overtaken, borrowed>>

TransfersUpdated(c) ==
  /\ call[c].pc = "transfers" /\ Ends(c)
  /\ contract' = [contract EXCEPT !["erc20"].deposit = call[c].deposit, !["erc20"].withdrawal = call[c].withdrawal]
  /\ Overtakes("erc20", call[c].edit)
  /\ borrowed' = IF call[c].borrows /\ (call[c].deposit \/ call[c].withdrawal) THEN borrowed \cup {"erc20"}
                  ELSE borrowed \ {"erc20"}
  /\ UNCHANGED <<asset, network, hot, edit>>

\* bulkVerify, bulkEnableTransfers: the rows are read once, and one after the other is done.
Bulk(c, pc, deposit, withdrawal) ==
  /\ call[c] = NoRequest /\ pc \in KindsOf[c] /\ ~network.mainnet /\ (pc = "bulkEnable" <=> deposit \/ withdrawal)
  /\ \E s \in Standards : contract[s].there
  /\ call' = [call EXCEPT ![c] =
       [pc |-> pc, deposit |-> deposit, withdrawal |-> withdrawal,
        todo |-> {[s |-> s, row |-> contract[s], edit |-> edit[s]] : s \in {s \in Standards : contract[s].there}}]]
  /\ UNCHANGED <<asset, network, contract, hot, edit, overtaken, borrowed>>

Done(c, item) ==
  call' = [call EXCEPT ![c] = IF call[c].todo = {item} THEN NoRequest ELSE [call[c] EXCEPT !.todo = @ \ {item}]]

\* verifyTokenContract
BulkVerify(c) ==
  /\ call[c].pc = "bulkVerify"
  /\ \E item \in call[c].todo :
       /\ Done(c, item)
       /\ IF item.s = "native" \/ item.row.token \in Proper
          THEN contract' = [contract EXCEPT ![item.s] = Checked(@, item.row.token)] /\ Overtakes(item.s, item.edit)
          ELSE UNCHANGED <<contract, overtaken>>
  /\ UNCHANGED <<asset, network, hot, edit, borrowed>>

\* isContractVerifiedForNetwork
VerifiedForNetwork(s, row) == row.verified /\ (s = "native" \/ row.checked # NoToken)

\* enableTokenContractTransfers
BulkEnable(c) ==
  /\ call[c].pc = "bulkEnable"
  /\ \E item \in call[c].todo :
       LET withdrawal == call[c].withdrawal /\ hot
       IN  /\ Done(c, item)
           /\ IF VerifiedForNetwork(item.s, item.row) /\ (call[c].deposit \/ withdrawal)
              THEN /\ network' = [network EXCEPT !.deposit = @ \/ call[c].deposit, !.withdrawal = @ \/ withdrawal]
                   /\ contract' = [contract EXCEPT ![item.s].deposit = @ \/ call[c].deposit,
                                                   ![item.s].withdrawal = @ \/ withdrawal]
                   /\ Overtakes(item.s, item.edit)
              ELSE UNCHANGED <<network, contract, overtaken>>
  /\ UNCHANGED <<asset, hot, edit, borrowed>>

ContractNext ==
  \/ \E s \in Standards, t \in Tokens \cup {NoToken} : Upsert(s, t)
  \/ \E c \in Requests, named \in BOOLEAN : Verify(c, named)
  \/ \E c \in Requests, deposit, withdrawal \in BOOLEAN : UpdateTransfers(c, deposit, withdrawal)
  \/ \E c \in Requests, pc \in {"bulkVerify", "bulkEnable"}, deposit, withdrawal \in BOOLEAN :
       Bulk(c, pc, deposit, withdrawal)
  \/ \E c \in Requests : Verified(c) \/ TransfersUpdated(c) \/ BulkVerify(c) \/ BulkEnable(c)

ContractSpec == ContractInit /\ [][ContractNext]_contractVars

-----------------------------------------------------------------------------
(* What the other services make of the rows. *)
\* getDepositTarget, getWithdrawalTarget, getEligibleTarget, getScanTarget: the native
\* contract first.
Target == IF contract["native"].there THEN "native" ELSE "erc20"
HasAddress(s) == contract[s].there /\ (s = "erc20" => contract[s].token # NoToken)

\* deposits: getDepositTarget
DepositTaken(s) ==
  /\ s = Target /\ HasAddress(s) /\ network.deposit /\ contract[s].deposit
  /\ s = "erc20" => /\ contract[s].verified \/ asset.verified
                    /\ contract[s].checked # NoToken \/ asset.checked # NoToken

\* deposit addresses: getEligibleTarget
AddressGiven(s) ==
  /\ network.deposit /\ s = Target /\ contract[s].there /\ contract[s].deposit
  /\ s = "erc20" => /\ contract[s].token # NoToken
                    /\ ~(~contract[s].verified /\ ~asset.verified)
                    /\ ~(contract[s].checked = NoToken /\ asset.checked = NoToken)

\* the indexer: depositEnabledContractFilter
Scanned(s) == HasAddress(s) /\ contract[s].deposit /\ network.deposit

\* deposits: what listDepositOptions lists, unless it is to list all
DepositListed(s) ==
  /\ network.deposit /\ contract[s].there /\ contract[s].deposit
  /\ s = "erc20" => contract[s].token # NoToken /\ contract[s].verified /\ contract[s].checked # NoToken

\* Mutant: the flag of the network is not asked for.
ShownAnyway(s) == HasAddress(s) /\ contract[s].deposit /\ (s = "native" \/ VerifiedForNetwork(s, contract[s]))

\* deposits: what is shown as open, toDepositOptionNetwork
DepositShown(s) ==
  HasAddress(s) /\ network.deposit /\ contract[s].deposit /\ (s = "native" \/ VerifiedForNetwork(s, contract[s]))

\* the account: toAssetNetworkResponse, which asks for no verification for deposits
ShownInAccount(s) == HasAddress(s) /\ network.deposit /\ contract[s].deposit

\* withdrawals: getWithdrawalTarget and the first lines of createWithdrawal
WithdrawalTaken(s) == s = Target /\ HasAddress(s) /\ network.withdrawal /\ contract[s].withdrawal

\* withdrawals: toWithdrawalOptionNetwork
WithdrawalShown(s) ==
  HasAddress(s) /\ network.withdrawal /\ contract[s].withdrawal /\ VerifiedForNetwork(s, contract[s])

\* withdrawals: broadcastNextApproved, which defers the others
Broadcastable(s) == contract[s].verified /\ (s = "native" \/ contract[s].checked # NoToken)

-----------------------------------------------------------------------------
\* What a contract is used for was found out about the address it has: the code that was
\* checked is its own, deposits are taken of proper tokens, and a withdrawal that is taken
\* is not put off for ever as unverified; unless an upsert came between a request's reading
\* and its writing, or the asset's own verification served (verifyContract,
\* updateTransfers, bulkEnableTransfers, broadcastNextApproved).
UsedIsChecked ==
  \A s \in Standards \ overtaken :
    /\ contract[s].checked \in {NoToken, contract[s].token}
    /\ s \notin borrowed => /\ s = "erc20" /\ DepositTaken(s) => contract[s].checked \in Proper
                            /\ WithdrawalTaken(s) => Broadcastable(s)

\* The services decide alike about one contract: what a user is shown as open is taken, an
\* address is given exactly where deposits are taken, and those are scanned for; but a
\* token that has a native contract beside it is shown and not taken, and the account's
\* overview, which does not ask for the verification, relies on the flags being reset.
ServicesAgree ==
  \A s \in Standards :
    /\ DepositShown(s) => DepositListed(s) /\ (DepositTaken(s) \/ s # Target)
    /\ WithdrawalShown(s) => WithdrawalTaken(s) \/ s # Target
    /\ DepositTaken(s) <=> AddressGiven(s)
    /\ DepositTaken(s) => Scanned(s)
    /\ s \notin overtaken /\ ShownInAccount(s) => DepositTaken(s) \/ s # Target

\* Both: the contracts that deposits and withdrawals use were checked on chain with the address
\* they have, and the services that read them decide alike (verifyContract, updateTransfers,
\* bulkEnableTransfers, getDepositTarget).
ContractsAreChecked == UsedIsChecked /\ ServicesAgree
=============================================================================
