CONSTANTS
  q1 = q1
  q2 = q2
  q3 = q3
  q4 = q4
  q5 = q5
  r1 = r1
  r2 = r2
  r3 = r3
  r4 = r4
  r5 = r5
  r6 = r6
  i1 = i1
  i2 = i2
  i3 = i3
  alice = alice
  bob = bob
  usd = usd
  tok = tok
  eth = eth
  None = None
  Quotes = {q1, q2, q3, q4, q5}
  Requests = {r1, r2, r3, r4, r5, r6}
  Offer <- Offers
  QuoteOf <- Quoted
  ClientId <- Clients
  Users = {alice, bob}
  Assets <- SomeAssets
  Native = {eth}
  Funding <- Wallets
  FeeRate = 1
  RateBase = 4
  DailyLimit = 8
  Outputs = {2, 4}
  Workers = {1, 2}
  MaxFaults = 3
SPECIFICATION ScopedSpec
  
PROPERTIES KeepsPromise CoinIsDelivered
CHECK_DEADLOCK FALSE
