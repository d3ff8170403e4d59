\* One caller that may abandon its waits, so that its later requests contend with
\* the abandoned ones for the one slot of their host; no symmetry,
\* which would be unsound for liveness.
CONSTANTS
    Keys = {k1, k2}
    Hosts <- MCHosts
    HostOf <- MCHostOf
    host = h1
    Tasks = {t1, t2}
    Callers = {c1}
    RequestConcurrency = 2
    PerHostConcurrency = 1
    CacheTtl = 1
    None = None
SPECIFICATION FairSpec
PROPERTIES
    EveryCallAnswered
    ResponsesExpire
    CloseTerminates
