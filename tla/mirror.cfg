SPECIFICATION FairSpec
CONSTANTS
  Client = {c1, c2}
  NProd = 2
  Quantities <- MCGoods
  MaxRequests = 4
  MaxLates = 4
INVARIANTS TypeOK InSyncUnlessLate NeverAhead AcksAreOwed
PROPERTIES StoreSpec RequestsAnswered
CHECK_DEADLOCK FALSE
