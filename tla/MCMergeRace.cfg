SPECIFICATION Spec
CONSTANTS
    Device = {1, 2}
    Item = {n}
    None = None
    MaxEdits = 3
    MaxCrashes = 0
INVARIANT BothSidesKept
CHECK_DEADLOCK FALSE
