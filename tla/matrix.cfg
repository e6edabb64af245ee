SPECIFICATION FairSpec
CONSTANTS
  MatrixWidth = 2
  MatrixHeight = 2
  ZeroPixel <- MCZeroPixel
  LitSets <- MCLitSets
  NeedSets <- MCNeedSets
  Spare = 1
  PauseMin = 1
  PauseMax = 2
  Garbage <- MCGarbage
INVARIANT
  TypeOK
INVARIANT
  DropsAreSet
INVARIANT
  EndsOnTheTime

  
