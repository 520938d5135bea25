SPECIFICATION Spec
CONSTANTS
    b1 = b1
    b2 = b2
    None = None
    Kinds = {"object"}
    Colls <- Posts
    VecColls <- Posts
    Fields <- Parent
    Refs <- ParentRestrict
    MaxId = 2
    Bodies = {b1, b2}
    Procs = {p1, p2}
    Ops = {"insert", "bulk", "update"}
    Faults = {"embed", "sql", "crash"}
    Batches <- Pairs
    Databases <- Empty
SYMMETRY ProcSymmetry
INVARIANTS TypeOK RefIntegrity
PROPERTIES IndexDrift InsertsIndexed AtomicOutcome
