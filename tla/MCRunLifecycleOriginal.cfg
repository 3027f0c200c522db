SPECIFICATION Spec
CONSTANTS
    N = 3
    Powers = {1, 3}
    Configured = {2, 3}
INVARIANTS OriginalFailureIsKept
CHECK_DEADLOCK FALSE
