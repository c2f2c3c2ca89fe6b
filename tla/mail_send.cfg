SPECIFICATION FairSpec
CONSTANTS
  Domain = {"abc", "xyz"}
  Address <- MCAddress
  Home <- MCHome
  Users <- MCUsers
  Client = {c1}
  MaxAsks = 3
  MaxLines = 2
  MaxBlanks = 1
  Glued = FALSE
  Reader = {}
  Account <- MCNoAccount
INVARIANTS TypeOK CopiesAreFaithful SentMeansDelivered
PROPERTIES DotDelivers DotAnswered SessionsEnd
CHECK_DEADLOCK FALSE
