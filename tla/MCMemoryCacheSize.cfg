\* The documented bound on the bytes held: violated.
SPECIFICATION SafeSpec
CONSTANTS
    Keys = {a, b, c}
    Sizes = {0, 1, 2, 4}
    MaxSize = 3
    MaxItems = 2
    TTL = 1
    MaxDrift = 4
SYMMETRY Symmetry
INVARIANTS
    SizeBounded
