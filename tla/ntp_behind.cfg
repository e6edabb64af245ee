SPECIFICATION Spec
CONSTANTS
  MaxPolls = 1
  Interval = 12
  Sec = 2
  Wrap = 64
  Epoch = 100
  Eager = TRUE
  MaxLate = 1
  MaxTime = 30
  MaxSends = 3
  MaxQueue = 0
INVARIANT
  NotAnIntervalBehind
