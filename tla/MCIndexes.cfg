SPECIFICATION MCSpec
CONSTANTS
  M = 2
  MMax0 = 2
  EfConstruction = 2
  Metric = "l2"
  Selection = "heuristic"
  LMax = 1
  MaxGraph = 3
  Vectors <- MCVectors
  DirEntriesPerPage = 2
  Room = 3
  Procs = {"a", "b"}
  Scenarios <- MCScenarios
INVARIANTS HnswStaysSound HnswKeepsWord AnswersHeld  RecoveredExactly  PureAlgorithms
PROPERTIES OneEntryPerOperation
CHECK_DEADLOCK FALSE
