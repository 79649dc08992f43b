-------------------------------- MODULE Ledger --------------------------------
(***************************************************************************)
(* The double-entry ledger every money-moving service posts to              *)
(* (src/apps/api/src/modules/ledger).  One asset is modelled: balancing and *)
(* balances are computed per asset and no entry mentions two of them.       *)
(*                                                                          *)
(* A journal maps an idempotency key to the number of ledger transactions   *)
(* stored under it.  What a key posts is fixed by the immutable columns of  *)
(* the row it is made from, so the entries are an argument of the operators *)
(* that read the journal and not part of the journal.  Where they do not     *)
(* (an order filled at a price of the moment), the journal maps the key to  *)
(* the entries themselves, the empty sequence standing for none.            *)
(***************************************************************************)
EXTENDS Integers, Sequences, FiniteSets, FiniteSetsExt

\* A ledger entry: its amount is positive, its direction gives the sign.
Debit(account, amount)  == [account |-> account, direction |-> "DEBIT",  amount |-> amount]
Credit(account, amount) == [account |-> account, direction |-> "CREDIT", amount |-> amount]

\* Sum of the values of a function.
SumOver(f) == MapThenSumSet(LAMBDA x : f[x], DOMAIN f)

TotalOf(entries, direction) ==
  SumOver([i \in DOMAIN entries |->
             IF entries[i].direction = direction THEN entries[i].amount ELSE 0])

\* assertBalancedLedgerEntries: what postTransaction refuses to store otherwise.
Balanced(entries) ==
  /\ Len(entries) >= 2
  /\ \A i \in DOMAIN entries : entries[i].amount > 0
  /\ TotalOf(entries, "DEBIT") = TotalOf(entries, "CREDIT")

\* postTransaction: an existing key is returned untouched, a new one is stored.
Post(journal, key) ==
  IF journal[key] > 0 THEN journal ELSE [journal EXCEPT ![key] = @ + 1]

\* calculateAccountBalance over the entries of one transaction: credits minus debits.
NetOf(entries, account) ==
  SumOver([i \in DOMAIN entries |->
             IF entries[i].account # account THEN 0
             ELSE IF entries[i].direction = "CREDIT" THEN entries[i].amount
             ELSE -entries[i].amount])

\* The balance of an account: every posted transaction, entriesOf giving its entries.
Balance(journal, entriesOf, account) ==
  SumOver([key \in DOMAIN journal |->
             IF journal[key] = 0 THEN 0 ELSE journal[key] * NetOf(entriesOf[key], account)])

\* postTransaction and the balance of an account, for a journal of entries.
Record(journal, key, entries) ==
  IF journal[key] # <<>> THEN journal ELSE [journal EXCEPT ![key] = entries]

Holding(journal, account) ==
  SumOver([key \in DOMAIN journal |-> NetOf(journal[key], account)])
===============================================================================
