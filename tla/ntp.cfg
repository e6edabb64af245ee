SPECIFICATION Spec
CONSTANTS
  MaxPolls = 1
  Interval = 4
  Sec = 2
  Wrap = 11
  Epoch = 100
  Eager = FALSE
  MaxTime = 22
  MaxSends = 4
  MaxQueue = 1
  MaxLate = 1
INVARIANT
  TypeOK
INVARIANT
  NeverAhead
INVARIANT
  NeverBehind
INVARIANT
  NothingLeftOver
