\* Three calls, two of them at once, over two upstreams, one host, two values of cache.root.
SPECIFICATION Spec
CONSTANTS
    Calls = {c1, c2}
    MaxCalls = 3
    Ups = {u1, u2}
    Imported = {u1}
    Hosts = {h}
    Roots = {r1, r2}
    None = None
INVARIANTS
    TypeOK
    RunningValid
    AgreesAfterSuccess
    RulesStayInForce
    DeletedRulesStayAway
PROPERTIES
    RestartFieldsKept
SYMMETRY Symmetry
