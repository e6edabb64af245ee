SPECIFICATION Spec
CONSTANTS
  MatrixWidth = 16
  MatrixHeight = 8
  CenterCol = 8
  CenterRow = 4
  WORDS <- EnglishWords
  DISPLAYS <- EnglishDisplays
  Steps <- MCSteps
INVARIANTS
  TypeOK
  WaitingWordsStay
  NothingLeftBehind
  LandedWordsStay
  SweepHidesNoWord
  EndsOnTheTime
PROPERTIES
  FramesRunOut
