SPECIFICATION Spec
CONSTANTS
    Blob = {b1, b2}
    Conn = {c1, c2}
    MaxSeq = 3
    MaxParts = 2
    Quota = 2
    SnapshotMax = 1
SYMMETRY Symmetric
CONSTRAINT FewLost
INVARIANTS TypeOK AckedDurable AckedServed SnapshotComplete NoOrphanStaging
PROPERTIES SnapshotAdvances ImplementsDurableLog
