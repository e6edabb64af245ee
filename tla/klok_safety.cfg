SPECIFICATION Spec
CONSTANTS
  Day = 6
  IncLen = 2
  Wrap = 64
  MaxBrightness = 3
  Values <- MCValues
  FirstUtc = 6
  MaxUtc = 8
  MaxMsgs = 2
  MaxFails = 2
  MaxDrops = 1
INVARIANTS
  TypeOK
  OutputsFollow
  SettingsSaved
  OneChangePending
  PanelIsLast
  FrameShowsReading
PROPERTY
  StoreSpec
