\* Two fetches over two servers that may not answer.
SPECIFICATION Spec
CONSTANTS
    Fetches = {f1, f2}
    N = 2
INVARIANTS
    TypeOK
    FailoverComplete
    AskedOnce
PROPERTIES
    EveryFetchReturns
