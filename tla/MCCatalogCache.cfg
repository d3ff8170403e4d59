\* Three venues for two cache entries of at most three bytes together: idle
\* catalogs are evicted for a new one, and a new one is dropped when it is
\* oversized or when the others are borrowed.  Two fetches race for the lock, the
\* one load slot, the catalogs and the clients.
CONSTANTS
    Venues = {v1, v2, v3}
    Exchanges = {e1, e2, e3, e4}
    Callers = {c1, c2}
    Sizes = {1, 2, 4}
    MaxEntries = 2
    MaxBytes = 3
    MaxLoads = 1
    Ttl = 2
    MissRefresh = 1
    None = None
SYMMETRY Symmetry
SPECIFICATION Spec
INVARIANTS
    TypeOK
    InUseStaysOpen
    NoOrphan
    RetentionBounded
PROPERTIES
    LoadsSpaced
    ClientsLent
