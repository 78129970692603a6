SPECIFICATION FairSpec
CONSTANTS
    Casts <- MCCasts
    Quota = 2
    MaxDrops = 2
INVARIANTS TypeOK NothingLost AcksInOrder
PROPERTIES Delivered HealDelivers
CHECK_DEADLOCK FALSE
