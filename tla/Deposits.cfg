CONSTANTS
  t1 = t1
  t2 = t2
  c1 = c1
  k1 = k1
  k2 = k2
  u1 = u1
  u2 = u2
  None = None
  Transfers = {t1, t2}
  Amount <- TwoAmounts
  FromWallet = {t1}
  Internal = {t2}
  MaxIntents = 2
  Callers = {c1}
  Scanners = {"webhook"}
  MaxBusy = 2
  Confirmations = 2
  Overlap = 1
  Window = 1
  MaxHeight = 2
  MaxReorgs = 1
  MaxFaults = 0
  Tokens = {u1, u2}
  NoToken = None
  Proper = {u1}
  Requests = {k1, k2}
  KindsOf <- OneOrOther
  MaxEdits = 1
SPECIFICATION TargetSpec
INVARIANTS CreditedOnce UnlinkedCreditIsMined CreditedIntentIsPaid ContractsAreChecked
CHECK_DEADLOCK FALSE
