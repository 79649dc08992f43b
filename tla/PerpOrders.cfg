\* The whole lifecycle with faults and cancellations, see Mixed in MCPerpOrders.
CONSTANTS
  o1 = o1
  o2 = o2
  o3 = o3
  alice = alice
  None = None
  Users = {alice}
  Orders = {o1, o2, o3}
  Mixes <- Mixed
  Enabled = {TRUE, FALSE}
SPECIFICATION FairSpec
INVARIANTS  FillsArePosted
PROPERTIES NettingNarrowsTheGap OpeningOrderEnds
CHECK_DEADLOCK FALSE
