SPECIFICATION Spec
CONSTANTS
    v = v
    w = w
    Vault = {v, w}
    Sub = {s}
    VaultOf <- MCVaultOf
    None = None
    MaxClock = 3
    MaxEvents = 2
    MaxFaults = 0
    MaxEdits = 0
PROPERTY NoResurrection
CHECK_DEADLOCK FALSE
