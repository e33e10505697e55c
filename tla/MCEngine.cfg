CONSTANTS
    HeaderSize = 1
    LpSize = 1
    Special = 10
    Pages = {1, 2, 3, 4}
    Xids = {1, 2, 3, 4, 5, 6, 7, 8}
    Sessions = {"a", "b", "c"}
    SegRecords = 100
    Scenarios <- EngineScenarios
SPECIFICATION MCSpec
INVARIANTS SnapshotReads EntriesMatchRows AnnMatches PagesKept AckedDdlSurvives CatalogKept
CHECK_DEADLOCK FALSE
