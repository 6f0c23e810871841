\* Both limits on; three keys for two places, sizes from empty to too large.
SPECIFICATION Spec
CONSTANTS
    Keys = {a, b, c}
    Sizes = {0, 1, 2, 4}
    MaxSize = 3
    MaxItems = 2
    TTL = 1
    MaxDrift = 4
INVARIANTS
    TypeOK
    ItemsBounded
    NeverOvercounted
    EvictionSucceeds
PROPERTIES
    EvictsLeastRecent
    ExpiredLeave
