\* Two requests for one expired index: violated.
SPECIFICATION SafeSpec
CONSTANTS
    Requests = {r1, r2}
    Versions = {good, bad}
    BadVersions = {bad}
    Kinds = {"apt index"}
    Overlapping = {"apt index"}
    Administered = {}
    VerifySignature = FALSE
    LoadIndexAsync = FALSE
    Loaders = {}
    IndexesChange = FALSE
    CrashPossible = FALSE
    Path = path
    None = None
SYMMETRY Symmetry
INVARIANTS
    CachedIndexHasRecords
