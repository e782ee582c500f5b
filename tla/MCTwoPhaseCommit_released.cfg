\* Two concurrent POSTs on the collection of one host; everything is fair, no
\* command is lost on the wire and the host stays up.
SPECIFICATION FairSpec
CONSTANTS
    Tx = {t1, t2}
    Host = {h1}
    MinDbs = 1
    NDocs = 1
    Faults = {"connect", "mongo", "slow"}
    t1 = t1
    t2 = t2
    h1 = h1
PROPERTIES
    AgentsReleased
    RollbackOnlyRemovesOwn
