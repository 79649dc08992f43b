CONSTANTS
  o1 = o1
  o2 = o2
  o3 = o3
  alice = alice
  i1 = i1
  i2 = i2
  None = None
  Market = Market
  Users = {alice}
  Orders = {o1, o2, o3}
  Owner <- OfAlice
  ClientId <- Repeated
  Side <- Sides
  Size <- Sizes
  Limit <- Limits
  Books <- SomeBooks
  Rates <- TwoRates
  RateBase = 2
  Funding <- Money
  Batch = 1
  MaxFaults = 0
SPECIFICATION Spec
PROPERTIES FilledStaysFilled
