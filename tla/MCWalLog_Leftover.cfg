SPECIFICATION Spec
CONSTANTS
  Lengths = {1, 3}
  SegmentSize = 8
  MaxCells = 7
  MaxRecords = 2
  MaxStops = 2
  Reordered = FALSE
INVARIANT OpenResumes
CHECK_DEADLOCK FALSE
