CONSTANTS
  d1 = d1
  w1 = w1
  c1 = c1
  tm = tm
  Kinds = {"erc20", "native", "sol", "tron"}
  Credits = {d1, d2}
  Purses = {w1}
  Amount = 2
  GasNeed = 2
  MaxAttempts = 2
  MaxFaults = 1
  Calls = {c1}
  Timer = tm
  Rows = {1, 2}
  Needs = {2}
  HotMin = 1
  HotTarget = 2
  MaxSingle = 2
  Funds = 4
  MaxTopUpFaults = 1
SPECIFICATION FundsSpec
INVARIANTS SweepIsItsDeposits ConfirmedIsSwept  
  
CHECK_DEADLOCK FALSE
