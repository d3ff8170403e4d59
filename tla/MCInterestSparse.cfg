\* One adapter that ends its walk at a short page, and a venue that omits buckets.
\* A behaviour is one fetch, so the system may stop.
CONSTANTS
    Adapters = {"binance"}
    Ranges <- MCRanges
    Venues = {"sparse"}
    FirstNow = 4
    Backlogs <- MCBacklogs
    Horizon = 5
    Limit = 2
    MaxPages = 3
    Retention = 4
    None = None
SPECIFICATION Spec
INVARIANT
    SparseTraversed
CHECK_DEADLOCK FALSE
