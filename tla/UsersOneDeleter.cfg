SPECIFICATION Spec
CONSTANTS
    None = None
    ann = ann
    bob = bob
    p1 = p1
    p2 = p2
    old = old
    young = young
    Names = {ann, bob}
    Passwords = {old, young}
    Procs = {p1, p2}
    Ops <- OneDeleter
    Databases <- Used
    Faults = {"sql", "stop"}
    TTL = 1
    MaxTime = 0
    MaxStarts = 1
    MaxTokens = 2
    Credentials <- SeedAnn
CHECK_DEADLOCK FALSE
INVARIANTS TypeOK AdminRemains
PROPERTY ChangesAuthorized
