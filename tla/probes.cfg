SPECIFICATION Spec
CONSTANTS
  p1 = p1
  p2 = p2
  p3 = p3
  t1 = t1
  Pings = {p1, p2, p3}
  Traces = {t1}
  Hosts = {"r", "h1", "h2"}
  Path <- MCPath
  Target <- MCTarget
  MaxAir = 2
  QueueCap = 2
  MaxFaults = 1
  Count <- MCCount
  MaxHops = 2
  Each = 2
  Together <- MCTogether
SYMMETRY MCSymmetry
INVARIANTS TypeOK CreditIsDue PromptIsCounted ReportAddsUp LinesNotAhead EndsForCause
CHECK_DEADLOCK FALSE
