-------------------------------- MODULE Wallets --------------------------------
(***************************************************************************)
(* The wallets a user connects by signing a nonce, and the embedded wallets *)
(* of the provider (wallets.service.ts).  Every write is a serializable     *)
(* transaction, here one step: a conflict is tried once more or refused,    *)
(* and leaves nothing.  The nonce is checked and the signature verified     *)
(* before the transaction, by calls that may overlap.                       *)
(*                                                                          *)
(* A wallet is its chain and address; whoever holds its key may have two    *)
(* accounts.  One nonce is asked for at a time.                             *)
(***************************************************************************)
EXTENDS Integers, FiniteSets

CONSTANTS
  Users, Keys,     \* keys a user can sign with
  Embedded,        \* user -> the key the provider keeps for the user
  NoOne,           \* no user and no key
  Calls,           \* overlapping connect calls
  MaxExternal      \* MAX_EXTERNAL_WALLETS

ASSUME WalletAssumption ==
  /\ IsFiniteSet(Keys) /\ Embedded \in [Users -> Keys] /\ MaxExternal \in Nat
  /\ NoOne \notin Users \union Keys

VARIABLES
  wallets,      \* key -> [owner, type, status, primary]
  nonce,        \* [user, key, state]
  connecting,   \* call -> idle, or ready for the transaction
  proved,       \* history: <<user, key>> signed or listed by the provider
  usedTwice,    \* history: a nonce was used by two calls
  reactivated   \* history: a revoked wallet was connected again
walletVars == <<wallets, nonce, connecting, proved, usedTwice, reactivated>>

NoWallet == [owner |-> NoOne, type |-> "none", status |-> "none", primary |-> FALSE]
NoNonce  == [user |-> NoOne, key |-> NoOne, state |-> "none"]

WalletInit ==
  /\ wallets = [k \in Keys |-> NoWallet] /\ nonce = NoNonce
  /\ connecting = [c \in Calls |-> "idle"]
  /\ proved = {} /\ usedTwice = FALSE /\ reactivated = FALSE

-----------------------------------------------------------------------------
Owned(u)     == {k \in Keys : wallets[k].owner = u}
ActiveOf(u)  == {k \in Owned(u) : wallets[k].status = "ACTIVE"}
PrimaryOf(u) == {k \in ActiveOf(u) : wallets[k].primary}

OnePrimary(w) ==
  \A j, k \in Keys : w[j].status = "ACTIVE" /\ w[k].status = "ACTIVE" /\ w[j].primary
                     /\ w[k].primary /\ w[j].owner = w[k].owner => j = k

\* The partial unique index over active primary wallets refuses a transaction.
Store(w) == OnePrimary(w) /\ wallets' = w

\* createSiweNonce
CreateNonce(u, k) ==
  /\ nonce = NoNonce
  /\ nonce' = [user |-> u, key |-> k, state |-> "open"]
  /\ UNCHANGED <<wallets, connecting, proved, usedTwice, reactivated>>

NonceExpires ==
  /\ nonce.state = "open" /\ nonce' = [nonce EXCEPT !.state = "expired"]
  /\ UNCHANGED <<wallets, connecting, proved, usedTwice, reactivated>>

\* cleanup deletes a nonce days after its use or end, when no call is still at it.
CleanupNonce ==
  /\ nonce.state \in {"used", "expired"} /\ \A c \in Calls : connecting[c] = "idle"
  /\ nonce' = NoNonce
  /\ UNCHANGED <<wallets, connecting, proved, usedTwice, reactivated>>

\* connectWallet, before its transaction
Verify(c) ==
  /\ connecting[c] = "idle" /\ nonce.state = "open"
  /\ connecting' = [connecting EXCEPT ![c] = "ready"]
  /\ proved' = proved \union {<<nonce.user, nonce.key>>}
  /\ UNCHANGED <<wallets, nonce, usedTwice, reactivated>>

\* Mutant: what was checked before the transaction is trusted in it.
AnyNonce == nonce.state \in {"open", "used"}

Consumable == nonce.state = "open"

Transferred(w, u) == w.owner # u /\ w.status = "REVOKED"

\* A wallet of another active account is in use; a new one may be one too many.
Connectable(u, k) ==
  LET w == wallets[k]
  IN  /\ ~(w.owner # u /\ w.status = "ACTIVE")
      /\ w = NoWallet => Cardinality({j \in ActiveOf(u) : wallets[j].type = "EXTERNAL"}) < MaxExternal

\* The row a connect leaves: a wallet left by another account starts afresh.
Connected(u, k, type) ==
  LET w == wallets[k]
      first == PrimaryOf(u) \ {k} = {}
  IN  [owner |-> u, status |-> "ACTIVE",
       type |-> IF w = NoWallet \/ Transferred(w, u) THEN type ELSE w.type,
       primary |-> IF Transferred(w, u) THEN first ELSE w.primary \/ first]

ConnectTx(c) ==
  LET u == nonce.user
      k == nonce.key
  IN  /\ connecting[c] = "ready"
      /\ connecting' = [connecting EXCEPT ![c] = "idle"]
      /\ IF Consumable /\ Connectable(u, k) /\ OnePrimary([wallets EXCEPT ![k] = Connected(u, k, "EXTERNAL")])
         THEN /\ Store([wallets EXCEPT ![k] = Connected(u, k, "EXTERNAL")])
              /\ nonce' = [nonce EXCEPT !.state = "used"]
              /\ usedTwice' = (usedTwice \/ nonce.state = "used")
              /\ reactivated' = (reactivated \/ wallets[k].status = "REVOKED")
         ELSE UNCHANGED <<wallets, nonce, usedTwice, reactivated>>
      /\ UNCHANGED proved

\* syncEmbeddedWallet: a wallet the user revoked stays revoked, whatever was connected under
\* the same key becomes the embedded one.
SyncEmbedded(u) ==
  LET k == Embedded[u]
      w == wallets[k]
  IN  /\ ~(w.owner = u /\ w.status = "REVOKED") /\ ~(w.owner # u /\ w.status = "ACTIVE")
      /\ {j \in ActiveOf(u) : wallets[j].type = "EMBEDDED"} \subseteq {k}
      /\ Store([wallets EXCEPT ![k] = [Connected(u, k, "EMBEDDED") EXCEPT !.type = "EMBEDDED"]])
      /\ proved' = proved \union {<<u, k>>}
      /\ UNCHANGED <<nonce, connecting, usedTwice, reactivated>>

\* setPrimaryWallet
SetPrimary(u, k) ==
  /\ k \in ActiveOf(u)
  /\ Store([j \in Keys |-> IF wallets[j].owner = u THEN [wallets[j] EXCEPT !.primary = (j = k)] ELSE wallets[j]])
  /\ UNCHANGED <<nonce, connecting, proved, usedTwice, reactivated>>

\* Mutant: no wallet takes the place of a revoked primary one.
NoReplacement(u, k) == {}

\* The most recently verified of the others, here any.
Replacement(u, k) == IF wallets[k].primary THEN ActiveOf(u) \ {k} ELSE {}

RevokeWallet(u, k) ==
  LET revoked == [wallets EXCEPT ![k].status = "REVOKED", ![k].primary = FALSE]
  IN  /\ k \in Owned(u)
      /\ IF Replacement(u, k) = {} THEN Store(revoked)
         ELSE \E j \in Replacement(u, k) : Store([revoked EXCEPT ![j].primary = TRUE])
      /\ UNCHANGED <<nonce, connecting, proved, usedTwice, reactivated>>

WalletNext ==
  \/ \E u \in Users, k \in Keys : CreateNonce(u, k) \/ SetPrimary(u, k) \/ RevokeWallet(u, k)
  \/ \E u \in Users : SyncEmbedded(u)
  \/ \E c \in Calls : Verify(c) \/ ConnectTx(c)
  \/ NonceExpires \/ CleanupNonce

WalletSpec == WalletInit /\ [][WalletNext]_walletVars

-----------------------------------------------------------------------------
(* Properties. *)

\* Wallets pass from account to account, are revoked and connected again, and calls use one
\* nonce at the same time: who has an active wallet has one primary wallet, an active wallet
\* is of an account that showed its key, a nonce connects once, and more external wallets
\* than allowed are active only when revoked ones were connected again.
WalletsAreTheirs ==
  /\ \A u \in Users : /\ ActiveOf(u) # {} => Cardinality(PrimaryOf(u)) = 1
                      /\ \A k \in ActiveOf(u) : <<u, k>> \in proved
                      /\ reactivated \/ Cardinality({k \in ActiveOf(u) : wallets[k].type = "EXTERNAL"}) <= MaxExternal
  /\ ~usedTwice
===============================================================================
