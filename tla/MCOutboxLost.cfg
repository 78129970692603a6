SPECIFICATION Spec
CONSTANTS
    Casts <- MCLostCasts
    Quota = 3
    MaxDrops = 1
INVARIANT PushRetriedUntilLogged
CHECK_DEADLOCK FALSE
