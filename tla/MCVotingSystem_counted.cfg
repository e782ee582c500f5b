\* Two POSTs, one with documents that cannot be read; mongods come and go.
SPECIFICATION Spec
CONSTANTS
    Tx = {t1, t2}
    Host = {h1, h2, h3}
    Mongo = {h1, h2, h3}
    h1 = h1
    h2 = h2
    h3 = h3
    t1 = t1
    t2 = t2
    p1 = p1
    m = m
    Copies = 2
    NDocs = 1
    Pg = {p1}
    Masters = {m}
    Slaves = {}
    MaxLogs = 1
    Outages = {"mongo"}
    Tables = {"percent"}
    PartyOf <- MCPartyOf
    AgeGroup <- MCAgeGroup
    Info <- MCInfoBroken
INVARIANTS
    TypeOK
    CountInv
    AcceptedAreCounted
    VotesSumCountsVotes
SYMMETRY HostSymmetry
