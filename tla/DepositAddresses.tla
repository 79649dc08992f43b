--------------------------- MODULE DepositAddresses ---------------------------
(***************************************************************************)
(* The personal deposit address of one user on one network                  *)
(* (deposit-address.service.ts), its subscription with the webhook provider *)
(* (alchemy-webhook-address-sync.service.ts) and the script that moves a    *)
(* Solana address to the custody provider.  Only an ACTIVE address is       *)
(* scanned for deposits.                                                    *)
(*                                                                          *)
(* The custody provider has one wallet for each external id; where the      *)
(* service makes the key itself, every call makes another.                  *)
(***************************************************************************)
EXTENDS Integers, FiniteSets

CONSTANTS
  Provisions,         \* calls of provision that may overlap
  Homes,              \* where a key is: EVM custody, other custody, the service itself
  MaxKeys, MaxSlips   \* bounds: keys made, failures

ASSUME AddressAssumption == Homes \subseteq {"evm", "custody", "own"} /\ {MaxKeys, MaxSlips} \subseteq Nat

CustodyAddress == 0   \* keys of the service are counted from 1
Unset == -1

VARIABLES
  home,        \* of the network
  place,       \* [status, address]
  provision,   \* call -> [pc, address]
  keys,        \* keys made
  given,       \* addresses shown to the user
  subscribed,  \* addresses the webhook watches
  reconciling, \* the addresses a reconciliation found missing, or none
  renewed,     \* history: what may have changed an address that was shown
  slips
addressVars == <<home, place, provision, keys, given, subscribed, reconciling, renewed, slips>>

NoProvision == [pc |-> "idle", address |-> Unset]

AddressInit ==
  /\ home \in Homes /\ place = [status |-> "none", address |-> Unset]
  /\ provision = [k \in Provisions |-> NoProvision]
  /\ keys = 0 /\ given = {} /\ subscribed = {} /\ reconciling = {} /\ renewed = {} /\ slips = 0

At(k, pc)    == provision[k].pc = pc
Goes(k, pc)  == provision' = [provision EXCEPT ![k].pc = pc]
Slip         == slips < MaxSlips /\ slips' = slips + 1
Others(k)    == {j \in Provisions \ {k} : provision[j].pc # "idle"}

-----------------------------------------------------------------------------
\* Mutant: an address is provisioned whether or not there is one.
NeverThere(status) == FALSE

\* An address that is there is answered.
IsThere(status) == status = "ACTIVE"

LookUp(k) ==
  /\ At(k, "idle")
  /\ provision' = [provision EXCEPT ![k] =
       IF IsThere(place.status) THEN [pc |-> "track", address |-> place.address]
       ELSE [pc |-> IF place.status = "FAILED" THEN "restart" ELSE IF place.status = "none" THEN "create" ELSE "obtain",
             address |-> Unset]]
  /\ renewed' = IF Others(k) = {} THEN renewed ELSE renewed \union {"overlap"}
  /\ UNCHANGED <<home, place, keys, given, subscribed, reconciling, slips>>

\* createProvisioningRow: the row of another call is taken as it is.
CreateRow(k) ==
  /\ At(k, "create") /\ Goes(k, "obtain")
  /\ place' = IF place.status = "none" THEN [place EXCEPT !.status = "PROVISIONING"] ELSE place
  /\ UNCHANGED <<home, keys, given, subscribed, reconciling, renewed, slips>>

RestartRow(k) ==
  /\ At(k, "restart") /\ Goes(k, "obtain")
  /\ place' = [place EXCEPT !.status = "PROVISIONING"]
  /\ UNCHANGED <<home, keys, given, subscribed, reconciling, renewed, slips>>

\* createOrGetWallet finds the wallet of an earlier call; provisionDepositAddress makes a key.
Obtain(k) ==
  /\ At(k, "obtain")
  /\ IF home = "own"
     THEN keys < MaxKeys /\ keys' = keys + 1 /\ provision' = [provision EXCEPT ![k] = [pc |-> "activate", address |-> keys + 1]]
     ELSE UNCHANGED keys /\ provision' = [provision EXCEPT ![k] = [pc |-> "activate", address |-> CustodyAddress]]
  /\ UNCHANGED <<home, place, given, subscribed, reconciling, renewed, slips>>

\* Written over whatever the row is by then.
Activate(k) ==
  /\ At(k, "activate") /\ Goes(k, "audit")
  /\ place' = [status |-> "ACTIVE", address |-> provision[k].address]
  /\ UNCHANGED <<home, keys, given, subscribed, reconciling, renewed, slips>>

Audit(k) ==
  /\ At(k, "audit") /\ Goes(k, "track")
  /\ UNCHANGED <<home, place, keys, given, subscribed, reconciling, renewed, slips>>

\* markFailed, in the catch around all that: the row may be ACTIVE, by this call or another's.
ProvisionFails(k) ==
  /\ provision[k].pc \in {"obtain", "activate", "audit"} /\ Slip
  /\ place' = [place EXCEPT !.status = "FAILED"]
  /\ provision' = [provision EXCEPT ![k] = NoProvision]
  /\ renewed' = IF At(k, "audit") THEN renewed \union {"failed after"} ELSE renewed
  /\ UNCHANGED <<home, keys, given, subscribed, reconciling>>

\* trackAlchemyAddress, for the networks it has a webhook of; its failure is not reported.
Answer(k) ==
  /\ At(k, "track")
  /\ \/ subscribed' = (IF home = "evm" THEN subscribed \union {provision[k].address} ELSE subscribed) /\ UNCHANGED slips
     \/ home = "evm" /\ Slip /\ UNCHANGED subscribed
  /\ given' = given \union {provision[k].address}
  /\ provision' = [provision EXCEPT ![k] = NoProvision]
  /\ UNCHANGED <<home, place, keys, reconciling, renewed>>

\* getExisting, list
Show ==
  /\ place.status = "ACTIVE" /\ place.address \notin given
  /\ given' = given \union {place.address}
  /\ UNCHANGED <<home, place, provision, keys, subscribed, reconciling, renewed, slips>>

-----------------------------------------------------------------------------
\* Mutant: the addresses the webhook knows are told apart the wrong way round.
MissingKnown == {place.address} \intersect subscribed

\* reconcileAll: the ACTIVE addresses the webhook does not list.
MissingNow == {a \in {place.address} : place.status = "ACTIVE"} \ subscribed

ReconcileReads ==
  /\ home = "evm" /\ reconciling = {} /\ MissingNow # {}
  /\ reconciling' = MissingNow
  /\ UNCHANGED <<home, place, provision, keys, given, subscribed, renewed, slips>>

ReconcileAdds ==
  /\ reconciling # {} /\ reconciling' = {}
  /\ subscribed' = subscribed \union reconciling
  /\ UNCHANGED <<home, place, provision, keys, given, renewed, slips>>

ReconcileFails ==
  /\ reconciling # {} /\ Slip /\ reconciling' = {}
  /\ UNCHANGED <<home, place, provision, keys, given, subscribed, renewed>>

\* migrate-external-sol-to-privy: an ACTIVE address whose key the service has.
Migrate ==
  /\ home = "own" /\ place.status = "ACTIVE" /\ place.address # CustodyAddress
  /\ place' = [place EXCEPT !.address = CustodyAddress]
  /\ renewed' = renewed \union {"migrated"}
  /\ UNCHANGED <<home, provision, keys, given, subscribed, reconciling, slips>>

AddressStep == \E k \in Provisions : CreateRow(k) \/ RestartRow(k) \/ Obtain(k) \/ Activate(k) \/ Audit(k) \/ Answer(k)
ReconcileStep == ReconcileReads \/ ReconcileAdds

AddressNext ==
  \/ \E k \in Provisions : LookUp(k) \/ ProvisionFails(k)
  \/ AddressStep \/ Show \/ ReconcileStep \/ ReconcileFails \/ Migrate

AddressSpec == AddressInit /\ [][AddressNext]_addressVars

-----------------------------------------------------------------------------
(* Properties. *)

\* An address a user was shown stays the user's for good, though every call writes over the
\* row: another takes its place only after calls overlapped, or one failed after it had
\* written its address, or the script, and never where the custody provider has the key.
GivenIsKept == (home # "own" \/ renewed = {}) => given \subseteq {place.address}

\* Calls may fail to subscribe an address and the reconciliation may fail: an ACTIVE address
\* of an EVM network is watched in the end, or does not stay ACTIVE.
IsWatched == home = "evm" /\ place.status = "ACTIVE" ~> place.address \in subscribed \/ place.status # "ACTIVE"
===============================================================================
