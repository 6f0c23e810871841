\* Two requests in flight, two changes of the tables, two settings.
SPECIFICATION Spec
CONSTANTS
    Slots = {f1, f2}
    MaxVersion = 2
    Texts = {x, y}
    Ids = {i}
    Keys = {a, b}
    None = None
INVARIANTS
    TypeOK
    PageShowsQuery
    PageShowsOwnWrites
    NothingWaitsInVain
    OnlyTouchedWritten
SYMMETRY Symmetry
