\* A signed package that two requests want at once, with the administrator; an APK
\* index and an APT index loaded in the background, one request at a time; all
\* with everything else that can happen around them.
SPECIFICATION Spec
CONSTANTS
    Requests = {r1, r2}
    Versions = {good, bad}
    BadVersions = {bad}
    Kinds = {"apk package", "apk index", "apt index"}
    Overlapping = {"apk package"}
    Administered = {"apk package"}
    VerifySignature = TRUE
    LoadIndexAsync = TRUE
    Loaders = {l1}
    IndexesChange = TRUE
    CrashPossible = TRUE
    Path = path
    None = None
INVARIANTS
    TypeOK
    DiskIntact
    HitsIntact
    NoNeedlessFetch
    NothingLeft
    RecordsFollowIndex
PROPERTIES
    EveryRequestReturns
