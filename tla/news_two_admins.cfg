SPECIFICATION Spec
CONSTANTS
  Academic = "academic"
  NonAcademic = "non_academic"
  Headings = {1}
  MaxNow = 1
  MaxArticles = 1
  Reporters = {r1}
  Readers = {}
  Admins = {a1, a2}
  MaxBusy = 3
INVARIANT EveryArticleKept
CHECK_DEADLOCK FALSE
