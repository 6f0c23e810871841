\* Two tabs, two sign-ins, two requests in flight beside the boots.
SPECIFICATION Spec
CONSTANTS
    Tabs = {t1, t2}
    Sessions = {s1, s2}
    Slots = {f1, f2}
    Repeats = {f2}
    InFlight = 2
    None = None
INVARIANTS
    TypeOK
    WarningNotHidden
    TokenMatchesCookie
SYMMETRY Symmetry
