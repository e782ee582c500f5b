\* Hosts may fail to vote, but not to commit.
SPECIFICATION Spec
CONSTANTS
    Tx = {t1, t2}
    Host = {h1, h2, h3}
    MinDbs = 2
    NDocs = 1
    Faults = {"connect", "chunking"}
    t1 = t1
    t2 = t2
    h1 = h1
    h2 = h2
    h3 = h3
SYMMETRY Symmetry
INVARIANTS
    ErrorMeansNothingStored
    NoRollback
