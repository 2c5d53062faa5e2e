SPECIFICATION Spec
INVARIANTS PassesExact PiecesApart OutputsExact GuardsTell DecidedExact
CONSTANTS
  Cases <- MCCases
  PieceLens = {1, 2}
  MaxRuns = 2
  GemvMinRows = 2
  SolveBatchMaxN = 2
  SolveBatchMaxK = 2
  PieceOps = 2
  RegionMinOps = 4
  PlaceMinRun = 2
  LabelBits = 8
  MaxStamp = 8
CHECK_DEADLOCK FALSE
