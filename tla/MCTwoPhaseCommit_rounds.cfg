\* One POST of one vote, three hosts of which two must take it: there is a
\* spare host for a second voting round.  Every fault.
SPECIFICATION Spec
CONSTANTS
    Tx = {t1}
    Host = {h1, h2, h3}
    MinDbs = 2
    NDocs = 1
    Faults = {"connect", "chunking", "reset", "mongo", "serverCrash", "clientCrash", "slow", "http"}
    t1 = t1
    h1 = h1
    h2 = h2
    h3 = h3
SYMMETRY HostSymmetry
INVARIANTS
    TypeOK
    StoredOnlyWhereChosen
    CommitFindsDocuments
    CommandOrder
PROPERTIES
    InsertNeverStartsAfterRollback
