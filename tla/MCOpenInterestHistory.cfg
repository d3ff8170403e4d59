\* Every adapter, an honest, a sparse and a stuck venue, and pages of two rows,
\* so that a range takes up to three pages.  A behaviour is one fetch, so the
\* system may stop.
CONSTANTS
    Adapters <- MCAdapters
    Ranges <- MCRanges
    Venues = {"honest", "sparse", "stuck"}
    FirstNow = 4
    Backlogs <- MCBacklogs
    Horizon = 5
    Limit = 2
    MaxPages = 3
    Retention = 4
    None = None
SPECIFICATION Spec
INVARIANTS
    TypeOK
    HistoryComplete
    MarksJoined
PROPERTIES
    CurrentSurvives
CHECK_DEADLOCK FALSE
