\* Every venue of the manifests in turn with one caller, and two callers that
\* share an optional adapter.  Calls are made until the client is closed, so the
\* system may stop.
CONSTANTS
    c1 = c1
    c2 = c2
    Callers = {c1, c2}
    Clients <- MCClients
    Runtimes <- MCRuntimes
    None = None
SPECIFICATION Spec
INVARIANTS
    TypeOK
    AdmittedServed
    FetchProven
    ClosedInOrder
PROPERTY
    LateFetches
CHECK_DEADLOCK FALSE
