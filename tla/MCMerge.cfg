SPECIFICATION Spec
CONSTANTS
    Device = {1, 2}
    Item = {n}
    None = None
    MaxEdits = 3
    MaxCrashes = 1
INVARIANTS TypeOK ReceivedKept QueueCovers LocalEditFolded FoldKeepsRemote NothingLostAtRest
PROPERTY Settles
CHECK_DEADLOCK FALSE
