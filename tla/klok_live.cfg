SPECIFICATION FairSpec
CONSTANTS
  Day = 6
  IncLen = 2
  Wrap = 64
  MaxBrightness = 3
  Values <- MCFewValues
  FirstUtc = 6
  MaxUtc = 8
  MaxMsgs = 1
  MaxFails = 1
  MaxDrops = 1
PROPERTY
  KeepsTime
PROPERTY
  PacketsRead
