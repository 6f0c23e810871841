\* One call at a time.
SPECIFICATION Spec
CONSTANTS
    Calls = {c1}
    MaxCalls = 2
    Ups = {u1, u2}
    Imported = {u1}
    Hosts = {h}
    Roots = {r1, r2}
    None = None
INVARIANT
    StoredStartable
