\* Whether HTTP requests overlap although the operations that sent them do not.
CONSTANTS
    Calls = {a, b, c}
    Interval = 3
SPECIFICATION Spec
INVARIANT
    RequestsSerialized
