SPECIFICATION Spec
CONSTANTS
    None = None
    ann = ann
    bob = bob
    p1 = p1
    p2 = p2
    old = old
    young = young
    Names = {ann, bob}
    Passwords = {old, young}
    Procs = {p1}
    Ops <- Everything
    Databases <- Used
    Faults = {"stop"}
    TTL = 1
    MaxTime = 2
    MaxStarts = 2
    MaxTokens = 2
    Credentials <- SeedAnn
CHECK_DEADLOCK FALSE
PROPERTIES RoleOutlivedByTTL ChangesAuthorized
