SPECIFICATION Spec
CONSTANTS
    Client = {a, b}
    Resource = {r1, r2}
    StorageLock = r1
    TTLs = {1, 2}
    Key = {k1, k2}
    Nobody = Nobody
    MaxTokens = 4
INVARIANTS TypeOK LeaseExclusive HolderCanWrite
PROPERTIES SelfHeals KeptUntilExpiry FencedWrites
