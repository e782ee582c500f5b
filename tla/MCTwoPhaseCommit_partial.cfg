\* One POST of two votes on two hosts that both must take it: insertMany can
\* stop half way.  Every fault; only the side of the client is fair.
SPECIFICATION ClientFairSpec
CONSTANTS
    Tx = {t1}
    Host = {h1, h2}
    MinDbs = 2
    NDocs = 2
    Faults = {"connect", "chunking", "reset", "mongo", "serverCrash", "clientCrash", "slow", "http"}
    t1 = t1
    h1 = h1
    h2 = h2
INVARIANTS
    OkMeansReplicated
    IndInv
PROPERTIES
    ImplementsStore
    EveryTransactionEnds
