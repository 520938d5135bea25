SPECIFICATION FairSpec
CONSTANTS
    b1 = b1
    b2 = b2
    None = None
    Kinds = {"object", "null"}
    Colls <- UsersPosts
    VecColls <- Posts
    Fields <- Author
    Refs <- AuthorSetNull
    MaxId = 2
    Bodies = {b1}
    Procs = {p1, p2}
    Ops = {"update", "delete"}
    Faults = {"embed", "sql"}
    Batches <- NoBatches
    Databases <- Loaded
PROPERTIES EveryRequestAnswered NoResurrection
