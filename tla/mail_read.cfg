SPECIFICATION Spec
CONSTANTS
  Domain = {"xyz"}
  Address <- MCBob
  Home <- MCBobsHome
  Users <- MCBob
  Client = {c1}
  MaxAsks = 2
  MaxLines = 0
  MaxBlanks = 0
  Glued = FALSE
  Reader = {d1, d2}
  Account <- MCOneAccount
SYMMETRY MCSymmetry
INVARIANT OnlyWhatWasMeant
CHECK_DEADLOCK FALSE
