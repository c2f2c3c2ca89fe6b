SPECIFICATION Spec
CONSTANTS
  Agent = {anna, ravi}
  Part <- MCPart
  Coaches <- MCCoaches
  Berth <- MCFourBerths
  Bay <- MCBay
  Bookings <- MCFamilies
  MaxRequests = 3
  MaxTicks = 2
INVARIANT SameCoachFirst
CHECK_DEADLOCK FALSE
