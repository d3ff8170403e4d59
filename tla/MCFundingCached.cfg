\* An adapter that numbers its pages, and a second fetch that takes a page which
\* the transport still holds beside one that is fresh.
CONSTANTS
    Adapters = {"deepcoin", "htx"}
    Ranges <- MCRanges
    Venues = {"honest"}
    FirstNow = 5
    Backlogs <- MCBacklogs
    Horizon = 6
    Limit = 2
    RowLimit = 5
    MaxPages = 3
    Lookback = 3
    MaxFetches = 2
    Live = Live
    None = None
SPECIFICATION Spec
INVARIANT ObservedWindows
CHECK_DEADLOCK FALSE
