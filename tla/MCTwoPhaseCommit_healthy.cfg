\* Nothing fails and no answer is late.
SPECIFICATION FairSpec
CONSTANTS
    Tx = {t1, t2}
    Host = {h1, h2}
    MinDbs = 2
    NDocs = 1
    Faults = {}
    t1 = t1
    t2 = t2
    h1 = h1
    h2 = h2
PROPERTIES
    HealthyPostSucceeds
