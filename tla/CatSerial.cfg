SPECIFICATION Spec
CONSTANTS
    None = None
    Names <- Colliding
    Fields <- Author
    MainTable <- Coll
    FtsOf <- Fts
    SqlTables <- AllTables
    Procs = {p1}
    Ops = {"create", "drop", "rename"}
    Faults = {"crash"}
INVARIANTS TypeOK BackingTables NoOrphanTables
PROPERTY DropTakesItsCollection
