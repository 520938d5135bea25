SPECIFICATION Spec
CONSTANTS
    None = None
    Clients = {c1}
    Procs = {p1, p2}
    Paths = {"api", "login", "metrics"}
    Cost = 2
    Rate <- Rates
    Burst <- Bursts
    MaxAge = 2
    MaxTime = 5
SYMMETRY ProcSymmetry
INVARIANTS TypeOK WindowBound
PROPERTIES GeneralSpec LoginSpec
