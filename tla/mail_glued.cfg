SPECIFICATION FairSpec
CONSTANTS
  Domain = {"abc", "xyz"}
  Address <- MCAddress
  Home <- MCHome
  Users <- MCUsers
  Client = {c1}
  MaxAsks = 1
  MaxLines = 1
  MaxBlanks = 1
  Glued = TRUE
  Reader = {}
  Account <- MCNoAccount
PROPERTIES DotAnswered
CHECK_DEADLOCK FALSE
