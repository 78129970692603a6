SPECIFICATION Spec
CONSTANTS
    p = p
    q = q
    r = r
    Device = {p, q, r}
    Casts <- MCGapCasts
    MaxDrops = 1
    Parts = 1
INVARIANT OfferHonest
CHECK_DEADLOCK FALSE
