SPECIFICATION Spec
CONSTANTS
    None = None
    h1 = h1
    h2 = h2
    item = item
    Item = Item
    post = post
    Names <- One
    Fields <- NoFields
    MainTable <- Coll
    FtsOf <- Fts
    SqlTables <- AllTables
    Procs = {p1}
    Ops = {"create", "drop"}
    Handlers = {h1, h2}
    DocOps <- Exporter
    MaxId = 3
    PageSize = 2
    Faults = {"crash"}
INVARIANTS TypeOK ExportSkipsNothing ExportRepeatsNothing
PROPERTIES WritesReachable
