SPECIFICATION Spec
CONSTANTS
  Client = {c1, c2}
  NProd = 2
  Quantities <- MCGoods
  MaxRequests = 3
  MaxLates = 1
INVARIANT SameData
CHECK_DEADLOCK FALSE
