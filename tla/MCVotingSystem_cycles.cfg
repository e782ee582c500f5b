\* The one thread of a slave is fair; everything around it may fail.
SPECIFICATION FairSpec
CONSTANTS
    Tx = {t1}
    Host = {h1}
    Mongo = {h1}
    h1 = h1
    t1 = t1
    p1 = p1
    p2 = p2
    s = s
    Copies = 1
    NDocs = 1
    Pg = {p1, p2}
    Masters = {}
    Slaves = {s}
    MaxLogs = 1
    Outages = {"mongo", "postgres", "ping", "crash"}
    Tables = {"education"}
    PartyOf <- MCPartyOf
    AgeGroup <- MCAgeGroup
    Info <- MCInfo
PROPERTIES
    EveryCycleEnds
