SPECIFICATION Spec
CONSTANTS
    Blob = {b1}
    Conn = {c1}
    MaxSeq = 3
    MaxParts = 1
    Quota = 3
    SnapshotMax = 1
INVARIANT AckedUpdateSurvivesCrash
