SPECIFICATION FairSpec
CONSTANTS
  Agent = {anna, ravi}
  Part <- MCPart
  Coaches <- MCCoaches
  Berth <- MCBerth
  Bay <- MCBay
  Bookings <- MCBookings
  MaxRequests = 3
  MaxTicks = 2
INVARIANTS TypeOK PreferencesMet
PROPERTIES OfficeSpec TableNeverFalls WatchedAnswered
CHECK_DEADLOCK FALSE
