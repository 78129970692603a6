SPECIFICATION Spec
CONSTANTS
    v = v
    w = w
    Vault = {v, w}
    Sub = {s, t}
    VaultOf <- MCVaultOf
    None = None
    MaxClock = 3
    MaxEvents = 3
    MaxFaults = 1
    MaxEdits = 1
INVARIANTS TypeOK AnsweredApplied LatestWins
PROPERTIES CompKept Served
CHECK_DEADLOCK FALSE
