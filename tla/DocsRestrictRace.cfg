SPECIFICATION Spec
CONSTANTS
    b1 = b1
    b2 = b2
    None = None
    Kinds = {"object"}
    Colls <- UsersPosts
    VecColls <- Posts
    Fields <- Author
    Refs <- AuthorRestrict
    MaxId = 2
    Bodies = {b1}
    Procs = {p1, p2}
    Ops = {"insert", "delete"}
    Faults = {}
    Batches <- NoBatches
    Databases <- Empty
SYMMETRY ProcSymmetry
INVARIANT RefIntegrity
