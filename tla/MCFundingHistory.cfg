\* Every adapter, an honest, a stuck and a capping venue, pages of two rows, and
\* two fetches of the same history so that the second may meet cached pages.  The
\* caller stops after that, so the system may stop.
CONSTANTS
    Adapters <- MCAdapters
    Ranges <- MCRanges
    Venues = {"honest", "stuck", "capped"}
    FirstNow = 5
    Backlogs <- MCBacklogs
    Horizon = 6
    Limit = 2
    RowLimit = 5
    MaxPages = 3
    Lookback = 3
    MaxFetches = 2
    Live = Live
    None = None
SPECIFICATION FairSpec
INVARIANTS
    TypeOK
    HistoryComplete
    WindowsObserved
PROPERTIES
    SettledCurrentRecent
    CurrentSurvives
    FetchEnds
CHECK_DEADLOCK FALSE
