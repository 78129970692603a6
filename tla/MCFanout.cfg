SPECIFICATION FairSpec
CONSTANTS
    p = p
    q = q
    r = r
    Device = {p, q, r}
    Casts <- MCCasts
    MaxDrops = 1
    Parts = 2
INVARIANTS TypeOK CursorCovers SnapshotCovers StreamOrdered
PROPERTY Converges
CHECK_DEADLOCK FALSE
