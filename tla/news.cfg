SPECIFICATION Spec
CONSTANTS
  Academic = "academic"
  NonAcademic = "non_academic"
  Headings = {1}
  MaxNow = 2
  MaxArticles = 2
  Reporters = {r1, r2}
  Readers = {d1}
  Admins = {a1}
  MaxBusy = 2
SYMMETRY MCSymmetry
INVARIANTS TypeOK FilesAreWhole EveryArticleKept ReaderGetsWhatItMeant SweptClean TalkGoesOn
CHECK_DEADLOCK FALSE
