\* Two callers, two keys of one host, three task identities; the global
\* semaphore admits two requests and the host one, so a request can hold the
\* global slot while it waits for the host.
CONSTANTS
    Keys = {k1, k2}
    Hosts <- MCHosts
    HostOf <- MCHostOf
    host = h1
    Tasks = {t1, t2, t3}
    Callers = {c1, c2}
    RequestConcurrency = 2
    PerHostConcurrency = 1
    CacheTtl = 1
    None = None
SYMMETRY Symmetry
SPECIFICATION Spec
INVARIANTS
    TypeOK
    PendingCached
    TimerDiscipline
    RetentionBounded
    OnlyCloseCancels
    CleanShutdown
PROPERTIES
    FreshHits
    ResponsesKept
    AnswersShared
