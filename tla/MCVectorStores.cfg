CONSTANTS
    InMemory = {m}
    Faiss = {f}
    Qdrant = {q1, q2}
    PgVector = {p}
    Documents = {a, b}
    Usual = 1
    Sizes = {1, 2}
    Batches <- MCBatches
    NoDocument = NoDocument
    MaxCalls = 3
    MaxFaults = 1
    MaxDrops = 1
    a = a
    b = b
SPECIFICATION Spec
PROPERTIES IndexSpec ThrowsForCause
SYMMETRY Interchangeable
CHECK_DEADLOCK FALSE
