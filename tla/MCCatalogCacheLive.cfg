\* Two fetches for two venues that share one cache entry and one load slot; no
\* symmetry, which would be unsound for liveness.
CONSTANTS
    Venues = {v1, v2}
    Exchanges = {e1, e2, e3}
    Callers = {c1, c2}
    Sizes = {1}
    MaxEntries = 1
    MaxBytes = 2
    MaxLoads = 1
    Ttl = 1
    MissRefresh = 1
    None = None
SPECIFICATION FairSpec
PROPERTIES
    FetchesEnd
    CatalogsExpire
    AllClosedEventually
