CONSTANTS
  t1 = t1
  t2 = t2
  c1 = c1
  None = None
  Transfers = {t1, t2}
  Amount <- TwoAmounts
  FromWallet = {t1}
  Internal = {}
  MaxIntents = 0
  Callers = {}
  Scanners = {"cron"}
  MaxBusy = 3
  Confirmations = 2
  Overlap = 1
  Window = 1
  MaxHeight = 3
  MaxReorgs = 0
  MaxFaults = 0
SPECIFICATION FairSpec
PROPERTIES ConfirmedIsCredited
CHECK_DEADLOCK FALSE
