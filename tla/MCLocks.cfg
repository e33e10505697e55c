SPECIFICATION MCSpec
CONSTANTS
  Xids = {1, 2, 3}
  Tables = {t1}
  Modes <- MCModes
  RRows = {r0}
  RRequests = {"Shared", "Exclusive", "Writer"}
  ROutcomes = {"Committed", "Aborted"}
  DRows = {r1, r2}
  DRequests = {"Exclusive"}
  DOutcomes = {"Committed"}
  DTables = {t2}
  DModes = {4}
SYMMETRY RowSymmetry
INVARIANTS GrantsSound QueuesSound RowLocksSound DetectorSound
PROPERTIES GrantsByTheRules FirstUpdaterWins MarksAreDeadlocks
