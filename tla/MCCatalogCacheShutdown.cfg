\* What is left of the cache once close() has returned.
CONSTANTS
    Venues = {v1, v2}
    Exchanges = {e1, e2, e3}
    Callers = {c1, c2}
    Sizes = {1}
    MaxEntries = 1
    MaxBytes = 2
    MaxLoads = 1
    Ttl = 1
    MissRefresh = 1
    None = None
SPECIFICATION Spec
INVARIANT
    ShutdownClosesAll
