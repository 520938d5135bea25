SPECIFICATION Spec
CONSTANTS
    None = None
    h1 = h1
    h2 = h2
    item = item
    Item = Item
    post = post
    Names <- Three
    Fields <- Author
    MainTable <- FoldedColl
    FtsOf <- FoldedFts
    SqlTables <- FoldedTables
    Procs = {p1}
    Ops = {"create", "rename"}
    Handlers = {h1}
    DocOps <- Writer
    MaxId = 1
    PageSize = 1
    Faults = {}
INVARIANT ResolveUnlessMisled
SYMMETRY NameSymmetry
