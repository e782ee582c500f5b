\* Two cycles of one process, nothing fails.
SPECIFICATION Spec
CONSTANTS
    Tx = {t1}
    Host = {h1}
    Mongo = {h1}
    h1 = h1
    t1 = t1
    p1 = p1
    m = m
    Copies = 1
    NDocs = 1
    Pg = {p1}
    Masters = {m}
    Slaves = {}
    MaxLogs = 2
    Outages = {}
    Tables = {"candidates", "percent", "education", "constituency", "age"}
    PartyOf <- MCPartyOf
    AgeGroup <- MCAgeGroup
    Info <- MCInfo
INVARIANTS
    VotesSumCountsVotes
