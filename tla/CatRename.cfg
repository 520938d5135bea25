SPECIFICATION Spec
CONSTANTS
    None = None
    Names <- Three
    Fields <- Author
    MainTable <- Coll
    FtsOf <- Fts
    SqlTables <- AllTables
    Procs = {p1, p2}
    Ops = {"create", "rename"}
    Faults = {"sql", "crash"}
SYMMETRY ProcSymmetry
INVARIANTS NoAliasing TargetsRegistered
PROPERTIES ReferencesAsDeclared GraphSpec
