CONSTANTS
  w1 = w1
  w2 = w2
  w3 = w3
  alice = alice
  bob = bob
  api = api
  script = script
  None = None
  External = External
  Withdrawals = {w1, w2, w3}
  Users = {alice, bob}
  Owner <- ManyOwner
  Recipient <- ManyRecipient
  Amount <- ManyAmount
  Fee <- ManyFee
  Funding <- ManyFunding
  Thresholds = {0, 2}
  DailyLimit = 10
  Decisions = {"approve", "reject", "cancel"}
  Batch = 2
  Workers = {api, script}
  Api = api
  MaxFaults = 2
SPECIFICATION ScopedSpec
INVARIANTS TypeOK RefundedIsReleased PaidOrRefunded LargeNeedsAdmin ConfirmedIsPaid 
PROPERTIES RefundedIsNotSent KeepsPromise 
