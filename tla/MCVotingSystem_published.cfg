\* Rows the schema refuses; PostgreSQL instances come and go.
SPECIFICATION Spec
CONSTANTS
    Tx = {t1}
    Host = {h1}
    Mongo = {h1}
    h1 = h1
    t1 = t1
    p1 = p1
    p2 = p2
    m = m
    Copies = 1
    NDocs = 2
    Pg = {p1, p2}
    Masters = {m}
    Slaves = {}
    MaxLogs = 2
    Outages = {"postgres"}
    Tables = {"candidates", "age"}
    PartyOf <- MCPartyOf
    AgeGroup <- MCAgeGroup
    Info <- MCInfoOdd
INVARIANTS
    PublishInv
    TablesPublished
    AgesFit
PROPERTIES
    ImplementsTables
