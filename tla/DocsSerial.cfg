SPECIFICATION Spec
CONSTANTS
    b1 = b1
    b2 = b2
    None = None
    Kinds = {"object", "null"}
    Colls <- UsersPosts
    VecColls <- Posts
    Fields <- AuthorEditor
    Refs <- Mixed
    MaxId = 2
    Bodies = {b1, b2}
    Procs = {p1}
    Ops = {"insert", "update", "delete"}
    Faults = {"embed", "sql", "crash"}
    Batches <- NoBatches
    Databases <- Empty
INVARIANTS RefIntegrity 
PROPERTIES DeleteTouchesOnlyReferences IndexDrift
