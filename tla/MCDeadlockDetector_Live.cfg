SPECIFICATION Spec
CONSTANTS
  Xids = {1, 2}
  Rows = {r1, r2}
  Requests = {"Writer"}
  FullPages = {r1}
  Outcomes = {"Committed", "Aborted"}
  Tables = {t1}
  Modes <- OnlyAccessExclusive
PROPERTIES WaitsEnd
