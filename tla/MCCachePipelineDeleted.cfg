\* A deletion during a disk hit: violated.
SPECIFICATION SafeSpec
CONSTANTS
    Requests = {r1, r2}
    Versions = {good, bad}
    BadVersions = {bad}
    Kinds = {"apk package"}
    Overlapping = {"apk package"}
    Administered = {"apk package"}
    VerifySignature = TRUE
    LoadIndexAsync = FALSE
    Loaders = {}
    IndexesChange = FALSE
    CrashPossible = FALSE
    Path = path
    None = None
SYMMETRY Symmetry
INVARIANTS
    DeletedIsGone
