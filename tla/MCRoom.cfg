SPECIFICATION Spec
CONSTANTS
    a = a
    b = b
    Device = {a, b}
    None = None
    Casts <- MCCasts
INVARIANTS TypeOK Covered MirrorExact
PROPERTIES RoomConverges PeersSettle
CHECK_DEADLOCK FALSE
