\* A client for Coinbase, whose adapter verifies the contract value of every answer.
CONSTANTS
    c1 = c1
    c2 = c2
    Callers = {c1, c2}
    Clients <- MCCoinbase
    Runtimes <- MCRuntimes
    None = None
SPECIFICATION Spec
INVARIANT
    AdmittedComplete
CHECK_DEADLOCK FALSE
