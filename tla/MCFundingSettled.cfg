\* The optional provider without a current rate, asked with and without history,
\* for no range and for ranges that are open, past or reach the present.
CONSTANTS
    Adapters = {"ccxt"}
    Ranges <- MCRanges
    Venues = {"honest"}
    FirstNow = 5
    Backlogs <- MCBacklogs
    Horizon = 6
    Limit = 2
    RowLimit = 5
    MaxPages = 4
    Lookback = 3
    MaxFetches = 1
    Live = Live
    None = None
SPECIFICATION Spec
INVARIANT SettledCurrentLatest
CHECK_DEADLOCK FALSE
