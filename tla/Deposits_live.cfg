CONSTANTS
  t1 = t1
  t2 = t2
  c1 = c1
  k1 = k1
  k2 = k2
  p1 = p1
  p2 = p2
  None = None
  Transfers = {t1, t2}
  Amount <- TwoAmounts
  FromWallet = {t1, t2}
  Internal = {}
  MaxIntents = 0
  Callers = {}
  Scanners = {"cron", "webhook"}
  MaxBusy = 3
  Confirmations = 2
  Overlap = 1
  Window = 1
  MaxHeight = 3
  MaxReorgs = 0
  MaxFaults = 1
  Payments = {p1, p2}
  Sum <- Sums
  Streams = {"native", "btc", "tron", "spl"}
  Required = 2
  ScanOverlap = 1
  Finality = 2
  PerRun = 3
  MaxHead <- Heights
  MaxScanFaults <- Failures
  Provisions = {k1, k2}
  Homes = {"evm", "custody", "own"}
  MaxKeys = 3
  MaxSlips = 2
SPECIFICATION FindSpec
INVARIANTS CreditedIsReceived GivenIsKept
PROPERTIES UnsweptIsCredited DepositsAreFound
CHECK_DEADLOCK FALSE
