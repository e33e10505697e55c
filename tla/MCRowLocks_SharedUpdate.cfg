SPECIFICATION RowSpec
CONSTANTS
  Xids = {1, 2, 3}
  Rows = {r1}
  Requests <- AllRequests
  FullPages = {r1}
  Outcomes = {"Committed", "Aborted"}
INVARIANT RowExclusion
