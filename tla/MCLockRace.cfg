\* The takeover of a lock that changed hands since it was confirmed.
SPECIFICATION Spec
CONSTANTS
    Processes = {p1, p2, p3}
    NoFile = NoFile
    CarefulOperators = FALSE
PROPERTY TakeoverFromTheDead
CHECK_DEADLOCK FALSE
