\* Two calls that overlap.
SPECIFICATION Spec
CONSTANTS
    Calls = {c1, c2}
    MaxCalls = 2
    Ups = {u1}
    Imported = {u1}
    Hosts = {h}
    Roots = {r1}
    None = None
INVARIANT
    CreatedRuleInForce
