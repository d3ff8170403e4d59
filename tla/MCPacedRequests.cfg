\* Three calls compete for the lock; the interval is three ticks, so that sleeps
\* are cut short by cancellations at different points.
CONSTANTS
    Calls = {a, b, c}
    Interval = 3
SPECIFICATION FairSpec
INVARIANTS
    TypeOK
    SleepIsRemainder
PROPERTIES
    Spaced
    CallsRun
