SPECIFICATION Spec
CONSTANTS
    Width = 2
    Height = 3
    Deltas <- MCDeltas
INVARIANT SameResult
CHECK_DEADLOCK FALSE
