\* An order of two units, one of which is filled.
CONSTANTS
  o1 = o1
  o2 = o2
  o3 = o3
  alice = alice
  None = None
  Users = {alice}
  Orders = {o1, o2, o3}
  Mixes <- Filling
  Enabled = {TRUE}
SPECIFICATION Spec
INVARIANT PositionIsMargined
CHECK_DEADLOCK FALSE
