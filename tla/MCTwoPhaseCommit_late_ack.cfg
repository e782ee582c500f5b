\* A commit answer may come after the ask has timed out.
SPECIFICATION Spec
CONSTANTS
    Tx = {t1}
    Host = {h1, h2}
    MinDbs = 2
    NDocs = 1
    Faults = {"slow"}
    t1 = t1
    h1 = h1
    h2 = h2
SYMMETRY HostSymmetry
INVARIANTS
    ErrorMeansNothingStored
