------------------------------ MODULE Aggregator ------------------------------
(***************************************************************************)
(* rso-aggregator.  A master makes a cycle every ten seconds, a slave      *)
(* whenever it cannot ping the master's machine: connect to the databases, *)
(* download the dictionaries, read every mongod, add to the statistics and *)
(* upsert them, row by row, into every PostgreSQL instance.                *)
(*                                                                         *)
(* MONGO_HOSTS and POSTGRES_HOSTS may name the machines in any order.      *)
(***************************************************************************)
EXTENDS Statistics

CONSTANTS
    Mongo,      \* the machines of MONGO_HOSTS
    Pg,         \* the machines of POSTGRES_HOSTS
    Masters,    \* aggregators started with MASTER=1
    Slaves,     \* aggregators started with MASTER=0
    MaxLogs,    \* log files a process can hold open
    Outages     \* what the environment may do, a subset of OutageKinds

(* mongo, postgres: a machine or its database goes down, and comes back    *)
(* ping: the master's machine stops answering, and answers again           *)
(* crash: an aggregator process dies, and is started again                 *)
OutageKinds == {"mongo", "postgres", "ping", "crash"}

ASSUME OutagesAssumption == Outages \subseteq OutageKinds
ASSUME RolesAssumption == Masters \cap Slaves = {}
ASSUME MaxLogsAssumption == MaxLogs \in Nat

Agg == Masters \cup Slaves

VARIABLES
    pc,           \* pc[a]: where aggregator a is in its cycle
    logs,         \* logs[a]: log files opened so far, none is ever closed
    known,        \* known[a]: dictionaries downloaded so far
    unread,       \* unread[a]: Mongo instances still to read in this cycle
    mapAllData,   \* mapAllData[a]: the rows read in this cycle, by rowId
    stats,        \* stats[a]: its Statistics
    conn,         \* conn[a]: PostgreSQL instances it has a live connection to
    todo,         \* todo[a]: <<table, instance>> still to write
    left,         \* left[a]: <<entry, instance>> still to write, open table
    res,          \* res[p]: the res_... tables of instance p, 0 for no row
    mongoUp,      \* the Mongo instances that answer
    pgUp,         \* the PostgreSQL instances that answer
    pingOk        \* the master's machine answers pings

aggVars == <<pc, logs, known, unread, mapAllData, stats, conn, todo, left>>
machineVars == <<mongoUp, pgUp, pingOk>>
countVars == <<aggVars, res, machineVars>>

Stages == {"sleeping", "mongo", "postgres", "d_candidates", "d_age",
           "reading", "inserting", "exited"}

AggTypeOK ==
    /\ pc \in [Agg -> Stages]
    /\ logs \in [Agg -> 0..MaxLogs]
    /\ known \in [Agg -> SUBSET Dictionaries]
    /\ unread \in [Agg -> SUBSET Mongo]
    /\ mapAllData \in [Agg -> SUBSET Row]
    /\ stats \in [Agg -> [Entries -> Nat]]
    /\ conn \in [Agg -> SUBSET Pg]
    /\ todo \in [Agg -> SUBSET (Tables \X Pg)]
    /\ left \in [Agg -> SUBSET (Entries \X Pg)]
    /\ res \in [Pg -> [Entries -> Nat]]
    /\ mongoUp \in SUBSET Mongo
    /\ pgUp \in SUBSET Pg
    /\ pingOk \in BOOLEAN

AggInit ==
    /\ pc = [a \in Agg |-> "sleeping"]
    /\ logs = [a \in Agg |-> 0]
    /\ known = [a \in Agg |-> {}]
    /\ unread = [a \in Agg |-> {}]
    /\ mapAllData = [a \in Agg |-> {}]
    /\ stats = [a \in Agg |-> NoStatistics]
    /\ conn = [a \in Agg |-> {}]
    /\ todo = [a \in Agg |-> {}]
    /\ left = [a \in Agg |-> {}]
    /\ res = [p \in Pg |-> NoStatistics]
    /\ mongoUp = Mongo
    /\ pgUp = Pg
    /\ pingOk = TRUE

Goto(a, stage) == pc' = [pc EXCEPT ![a] = stage]

(* Mutant of Wake: the number of open log files is not looked at. *)
WakeUnchecked(a) ==
    /\ pc[a] = "sleeping"
    /\ a \in Masters \/ ~pingOk
    /\ logs' = [logs EXCEPT ![a] = @ + 1]
    /\ Goto(a, "mongo")
    /\ UNCHANGED <<known, unread, mapAllData, stats, conn, todo, left, res,
                   machineVars>>

(* The loop of the constructor calls init; createLog adds a FileHandler to *)
(* the logger in every cycle and exits when it cannot.                     *)
Wake(a) ==
    /\ pc[a] = "sleeping"
    /\ a \in Masters \/ ~pingOk
    /\ IF logs[a] < MaxLogs
       THEN /\ logs' = [logs EXCEPT ![a] = @ + 1]
            /\ Goto(a, "mongo")
       ELSE Goto(a, "exited") /\ UNCHANGED logs
    /\ UNCHANGED <<known, unread, mapAllData, stats, conn, todo, left, res,
                   machineVars>>

(* Mutant of ConnectMongo: only instances that answer now are to be read. *)
ConnectMongoActive(a) ==
    /\ pc[a] = "mongo"
    /\ mongoUp # {}
    /\ mapAllData' = [mapAllData EXCEPT ![a] = {}]
    /\ unread' = [unread EXCEPT ![a] = mongoUp]
    /\ Goto(a, "postgres")
    /\ UNCHANGED <<logs, known, stats, conn, todo, left, res, machineVars>>

(* new MongoHandler: retried until one instance answers *)
ConnectMongo(a) ==
    /\ pc[a] = "mongo"
    /\ mongoUp # {}
    /\ mapAllData' = [mapAllData EXCEPT ![a] = {}]
    /\ unread' = [unread EXCEPT ![a] = Mongo]
    /\ Goto(a, "postgres")
    /\ UNCHANGED <<logs, known, stats, conn, todo, left, res, machineVars>>

(* new PostgresHandler: the instances are tried one after the other, so any *)
(* of those that answer now may have been missed; retried until one answers. *)
ConnectPostgres(a) ==
    /\ pc[a] = "postgres"
    /\ \E S \in (SUBSET pgUp) \ {{}} : conn' = [conn EXCEPT ![a] = S]
    /\ Goto(a, "d_candidates")
    /\ UNCHANGED <<logs, known, unread, mapAllData, stats, todo, left, res,
                   machineVars>>

(* getDictData, from the first active instance; with none the cycle goes   *)
(* on with what it has.                                                    *)
GetDictData(a) ==
    /\ pc[a] \in Dictionaries
    /\ known' = [known EXCEPT ![a] = IF conn[a] # {} THEN @ \cup {pc[a]} ELSE @]
    /\ Goto(a, IF pc[a] = "d_candidates" THEN "d_age" ELSE "reading")
    /\ UNCHANGED <<logs, unread, mapAllData, stats, conn, todo, left, res,
                   machineVars>>

(* What getAllData gets from instance h holding docs: everything or, when  *)
(* h does not answer or one document lacks a field, nothing at all.        *)
Found(h, docs) ==
    IF h \in mongoUp /\ \A r \in docs : Info[r].complete THEN docs ELSE {}

(* Mutant of ReadInstance: every copy of a row is counted. *)
ReadAndCount(a, h, docs) ==
    /\ pc[a] = "reading"
    /\ h \in unread[a]
    /\ unread' = [unread EXCEPT ![a] = @ \ {h}]
    /\ stats' = [stats EXCEPT ![a] = CalculateAll(@, Found(h, docs), known[a])]
    /\ UNCHANGED <<pc, logs, known, mapAllData, conn, todo, left, res, machineVars>>

(* Mutant of ReadInstance: an instance that fails ends the reading. *)
ReadUntilFailure(a, h, docs) ==
    /\ pc[a] = "reading"
    /\ h \in unread[a]
    /\ unread' = [unread EXCEPT ![a] = IF Found(h, docs) = docs THEN @ \ {h} ELSE {}]
    /\ mapAllData' = [mapAllData EXCEPT ![a] = @ \cup Found(h, docs)]
    /\ UNCHANGED <<pc, logs, known, stats, conn, todo, left, res, machineVars>>

(* getAllData reads one instance; removeDuplicates joins the rows of all.  *)
ReadInstance(a, h, docs) ==
    /\ pc[a] = "reading"
    /\ h \in unread[a]
    /\ unread' = [unread EXCEPT ![a] = @ \ {h}]
    /\ mapAllData' = [mapAllData EXCEPT ![a] = @ \cup Found(h, docs)]
    /\ UNCHANGED <<pc, logs, known, stats, conn, todo, left, res, machineVars>>

(* stats.calculateAll(mapAllData); on to insertStats *)
Calculate(a) ==
    /\ pc[a] = "reading"
    /\ unread[a] = {}
    /\ stats' = [stats EXCEPT ![a] = CalculateAll(@, mapAllData[a], known[a])]
    /\ todo' = [todo EXCEPT ![a] = Tables \X Pg]
    /\ Goto(a, "inserting")
    /\ UNCHANGED <<logs, known, unread, mapAllData, conn, left, res, machineVars>>

(* Mutant of OpenTable: it waits for an instance that is not active. *)
OpenActiveTable(a, s, p) ==
    /\ pc[a] = "inserting"
    /\ left[a] = {}
    /\ <<s, p>> \in todo[a]
    /\ \A job \in todo[a] : Rank[s] <= Rank[job[1]]
    /\ p \in conn[a]
    /\ todo' = [todo EXCEPT ![a] = @ \ {<<s, p>>}]
    /\ left' = [left EXCEPT ![a] =
                   {<<e, p>> : e \in {d \in Entries : d[1] = s /\ stats[a][d] > 0}}]
    /\ UNCHANGED <<pc, logs, known, unread, mapAllData, stats, conn, res, machineVars>>

(* Mutant of OpenTable: a table is given up at an instance not active. *)
ReturnIfInactive(a, s, p) ==
    /\ pc[a] = "inserting"
    /\ left[a] = {}
    /\ <<s, p>> \in todo[a]
    /\ \A job \in todo[a] : Rank[s] <= Rank[job[1]]
    /\ todo' = [todo EXCEPT ![a] = IF p \in conn[a] THEN @ \ {<<s, p>>}
                                                    ELSE @ \ ({s} \X Pg)]
    /\ left' = [left EXCEPT ![a] =
                   {<<e, p>> : e \in {d \in Entries :
                       d[1] = s /\ stats[a][d] > 0 /\ p \in conn[a]}}]
    /\ UNCHANGED <<pc, logs, known, unread, mapAllData, stats, conn, res, machineVars>>

(* Mutant of OpenTable: the rows of an earlier cycle are deleted first. *)
OpenAfresh(a, s, p) ==
    /\ pc[a] = "inserting"
    /\ left[a] = {}
    /\ <<s, p>> \in todo[a]
    /\ \A job \in todo[a] : Rank[s] <= Rank[job[1]]
    /\ todo' = [todo EXCEPT ![a] = @ \ {<<s, p>>}]
    /\ left' = [left EXCEPT ![a] =
                   {<<e, p>> : e \in {d \in Entries :
                       d[1] = s /\ stats[a][d] > 0 /\ p \in conn[a]}}]
    /\ res' = [res EXCEPT ![p] = [e \in Entries |->
                   IF p \in conn[a] /\ e[1] = s THEN 0 ELSE @[e]]]
    /\ UNCHANGED <<pc, logs, known, unread, mapAllData, stats, conn, machineVars>>

(* insertRes...: go to the next instance, or the next table; an instance   *)
(* that is not active is passed over.                                      *)
OpenTable(a, s, p) ==
    /\ pc[a] = "inserting"
    /\ left[a] = {}
    /\ <<s, p>> \in todo[a]
    /\ \A job \in todo[a] : Rank[s] <= Rank[job[1]]
    /\ todo' = [todo EXCEPT ![a] = @ \ {<<s, p>>}]
    /\ left' = [left EXCEPT ![a] =
                   {<<e, p>> : e \in {d \in Entries :
                       d[1] = s /\ stats[a][d] > 0 /\ p \in conn[a]}}]
    /\ UNCHANGED <<pc, logs, known, unread, mapAllData, stats, conn, res, machineVars>>

(* Mutant of Upsert: insert or nothing, a row that is there stays. *)
InsertOnly(a, e, p) ==
    /\ <<e, p>> \in left[a]
    /\ left' = [left EXCEPT ![a] = @ \ {<<e, p>>}]
    /\ res' = [res EXCEPT ![p][e] = IF p \in conn[a] /\ ForeignKeyOk(e) /\ @ = 0
                                    THEN stats[a][e] ELSE @]
    /\ UNCHANGED <<pc, logs, known, unread, mapAllData, stats, conn, todo, machineVars>>

(* One row of the open table: insert ... on conflict do update; commit.    *)
(* A row that cannot be written is rolled back and the next one follows.   *)
Upsert(a, e, p) ==
    /\ <<e, p>> \in left[a]
    /\ left' = [left EXCEPT ![a] = @ \ {<<e, p>>}]
    /\ res' = [res EXCEPT ![p][e] = IF p \in conn[a] /\ ForeignKeyOk(e)
                                    THEN stats[a][e] ELSE @]
    /\ UNCHANGED <<pc, logs, known, unread, mapAllData, stats, conn, todo, machineVars>>

(* The finally branches close the connections; the loop sleeps or pings.   *)
CloseDB(a) ==
    /\ pc[a] = "inserting"
    /\ left[a] = {} /\ todo[a] = {}
    /\ conn' = [conn EXCEPT ![a] = {}]
    /\ Goto(a, "sleeping")
    /\ UNCHANGED <<logs, known, unread, mapAllData, stats, todo, left, res,
                   machineVars>>

(***************************************************************************)
(* The machines.                                                           *)
(***************************************************************************)
MongoOutage ==
    /\ "mongo" \in Outages
    /\ \E h \in Mongo : mongoUp' = IF h \in mongoUp THEN mongoUp \ {h}
                                                  ELSE mongoUp \cup {h}
    /\ UNCHANGED <<aggVars, res, pgUp, pingOk>>

(* A connection that is broken is not made again within the cycle. *)
PostgresDown(p) ==
    /\ "postgres" \in Outages
    /\ p \in pgUp
    /\ pgUp' = pgUp \ {p}
    /\ conn' = [a \in Agg |-> conn[a] \ {p}]
    /\ UNCHANGED <<pc, logs, known, unread, mapAllData, stats, todo, left, res,
                   mongoUp, pingOk>>

PostgresUp(p) ==
    /\ p \notin pgUp
    /\ pgUp' = pgUp \cup {p}
    /\ UNCHANGED <<aggVars, res, mongoUp, pingOk>>

PingOutage ==
    /\ "ping" \in Outages
    /\ pingOk' = ~pingOk
    /\ UNCHANGED <<aggVars, res, mongoUp, pgUp>>

(* The process dies wherever it is; what its memory held is gone. *)
Crash(a) ==
    /\ "crash" \in Outages
    /\ pc[a] # "exited"
    /\ Goto(a, "exited")
    /\ logs' = [logs EXCEPT ![a] = 0]
    /\ known' = [known EXCEPT ![a] = {}]
    /\ unread' = [unread EXCEPT ![a] = {}]
    /\ mapAllData' = [mapAllData EXCEPT ![a] = {}]
    /\ stats' = [stats EXCEPT ![a] = NoStatistics]
    /\ conn' = [conn EXCEPT ![a] = {}]
    /\ todo' = [todo EXCEPT ![a] = {}]
    /\ left' = [left EXCEPT ![a] = {}]
    /\ UNCHANGED <<res, machineVars>>

(* Somebody starts the process again. *)
Restart(a) ==
    /\ "crash" \in Outages
    /\ pc[a] = "exited" /\ logs[a] = 0
    /\ Goto(a, "sleeping")
    /\ UNCHANGED <<logs, known, unread, mapAllData, stats, conn, todo, left, res,
                   machineVars>>

(* One step of the thread of a that does not read a mongod *)
Step(a) ==
    \/ Wake(a)
    \/ ConnectMongo(a)
    \/ ConnectPostgres(a)
    \/ GetDictData(a)
    \/ Calculate(a)
    \/ \E job \in todo[a] : OpenTable(a, job[1], job[2])
    \/ \E job \in left[a] : Upsert(a, job[1], job[2])
    \/ CloseDB(a)

Environment ==
    \/ MongoOutage
    \/ \E p \in Pg : PostgresDown(p) \/ PostgresUp(p)
    \/ PingOutage
    \/ \E a \in Agg : Crash(a) \/ Restart(a)

==============================================================================
