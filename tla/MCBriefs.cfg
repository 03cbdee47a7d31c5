SPECIFICATION BriefsSpec
CONSTANTS
  Authors <- MCAuthors
  CreatedAt <- MCCreatedAt
  Directories <- MCDirectories
  BandTops <- MCBandTops
  Totals = {30, 90}
  AcceptAt = 70
  Floor = 2
  Days = 2
  MaxRows = 3
  MaxTime = 3
  MaxVersion = 2
INVARIANTS
  SameFiguresAtEveryAltitude
  FiguresReachUp
PROPERTIES
  ImprovementKept
\* The rows, the clock and the configuration stop at their bounds.
CHECK_DEADLOCK FALSE
