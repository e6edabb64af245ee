SPECIFICATION Spec
CONSTANTS
  Day = 6
  IncLen = 2
  Wrap = 64
  MaxBrightness = 3
  Values <- MCFewValues
  FirstUtc = 6
  MaxUtc = 6
  MaxMsgs = 1
  MaxFails = 0
  MaxDrops = 0
INVARIANT
  SavedBrightnessInRange
