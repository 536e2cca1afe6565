SPECIFICATION FairSpec
CONSTANTS
  Producers = {p1, p2}
  Cap = 2
  BatchSize = 2
  MaxPosts = 2
  NoEvent = NoEvent
  MallocMayFail = TRUE
CHECK_DEADLOCK FALSE
INVARIANTS TypeOK NoSlotRace InClaimOrder IInv
PROPERTIES FifoSpec EventuallyHandled PostReturns
