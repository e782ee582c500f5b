-------------------------- MODULE VotingSystem_proofs --------------------------
(***************************************************************************)
(* Proofs about VotingSystem, for any votes, hosts, aggregators, machines  *)
(* and outages: types, that no cycle misses an accepted vote, that what a  *)
(* cycle has counted is what the connected instances show, and that one    *)
(* cycle does not count a vote twice.                                      *)
(***************************************************************************)
EXTENDS VotingSystem, FiniteSetTheorems, TLAPS

(***************************************************************************)
(* Counting.                                                               *)
(***************************************************************************)

(* There are finitely many rows, so every number calculateAll adds exists. *)
LEMMA RowsFinite == IsFiniteSet(Row)
<1>1. IsFiniteSet(1..NDocs)
  BY FS_Interval, StoreAssumption
<1> QED
  BY <1>1, FS_Product, StoreAssumption, RowsAssumption

(* calculateAll turns numbers of votes into numbers of votes. *)
LEMMA CalculateAllType ==
    ASSUME NEW old \in [Entries -> Nat], NEW rows \in SUBSET Row,
           NEW dictionaries \in SUBSET Dictionaries
    PROVE  CalculateAll(old, rows, dictionaries) \in [Entries -> Nat]
<1>1. ASSUME NEW e \in Entries
      PROVE  Cardinality(Counted(e, rows, dictionaries)) \in Nat
  <2>1. Counted(e, rows, dictionaries) \subseteq Row
    BY DEF Counted
  <2> QED
    BY <2>1, RowsFinite, FS_Subset, FS_CardinalityType
<1>2. \A e \in Entries :
          old[e] + Cardinality(Counted(e, rows, dictionaries)) \in Nat
  BY <1>1
<1> QED
  BY <1>2 DEF CalculateAll

LEMMA NoStatisticsType == NoStatistics \in [Entries -> Nat]
  BY DEF NoStatistics

(***************************************************************************)
(* Types.                                                                  *)
(***************************************************************************)

LEMMA InitType == Init => TypeOK
<1> SUFFICES ASSUME Init PROVE TypeOK
  OBVIOUS
<1> USE DEF Init
<1>1. AggTypeOK
  <2>1. stats \in [Agg -> [Entries -> Nat]] /\ res \in [Pg -> [Entries -> Nat]]
    BY NoStatisticsType DEF AggInit
  <2> QED
    BY <2>1, MaxLogsAssumption DEF AggInit, AggTypeOK, Stages
<1>2. accepted \in [Tx -> BOOLEAN] /\ place \in [Tx -> SUBSET Host]
      /\ votes \in [Host -> SUBSET Row]
  BY DEF StoreInit
<1> QED
  BY <1>1, <1>2 DEF TypeOK

LEMMA StoreType == TypeOK /\ StoreNext => accepted' \in [Tx -> BOOLEAN]
                                          /\ place' \in [Tx -> SUBSET Host]
                                          /\ votes' \in [Host -> SUBSET Row]
<1> SUFFICES ASSUME TypeOK, NEW t \in Tx,
                    \/ Choose(t) \/ Accept(t) \/ Tell(t)
                    \/ \E h \in Host : Add(t, h) \/ TakeBack(t, h)
             PROVE  /\ accepted' \in [Tx -> BOOLEAN]
                    /\ place' \in [Tx -> SUBSET Host]
                    /\ votes' \in [Host -> SUBSET Row]
  BY DEF StoreNext
<1> USE DEF TypeOK
<1>1. CASE Choose(t)
  BY <1>1 DEF Choose
<1>2. CASE Accept(t)
  BY <1>2 DEF Accept
<1>3. CASE Tell(t)
  BY <1>3 DEF Tell
<1>4. ASSUME NEW h \in Host, Add(t, h)
      PROVE  /\ accepted' \in [Tx -> BOOLEAN]
             /\ place' \in [Tx -> SUBSET Host]
             /\ votes' \in [Host -> SUBSET Row]
  <2>1. Documents(t) \subseteq Row
    BY RowsAssumption DEF Documents
  <2> QED
    BY <1>4, <2>1 DEF Add
<1>5. ASSUME NEW h \in Host, TakeBack(t, h)
      PROVE  /\ accepted' \in [Tx -> BOOLEAN]
             /\ place' \in [Tx -> SUBSET Host]
             /\ votes' \in [Host -> SUBSET Row]
  BY <1>5 DEF TakeBack
<1> QED
  BY <1>1, <1>2, <1>3, <1>4, <1>5

(* An instance gives a set of its rows, or nothing. *)
LEMMA FoundType ==
    ASSUME NEW h, NEW docs \in SUBSET Row
    PROVE  Found(h, docs) \in SUBSET Row
  BY DEF Found

LEMMA ReadType ==
    ASSUME AggTypeOK, NEW a \in Agg, NEW h \in Mongo, NEW docs \in SUBSET Row,
           ReadInstance(a, h, docs)
    PROVE  AggTypeOK'
<1>1. mapAllData' \in [Agg -> SUBSET Row]
  BY FoundType DEF AggTypeOK, ReadInstance
<1> QED
  BY <1>1 DEF AggTypeOK, ReadInstance, machineVars

LEMMA ConnectType ==
    ASSUME AggTypeOK, NEW a \in Agg, ConnectMongo(a)
    PROVE  AggTypeOK'
  BY DEF AggTypeOK, ConnectMongo, Goto, Stages, machineVars

LEMMA StepType ==
    ASSUME AggTypeOK, NEW a \in Agg, Step(a)
    PROVE  AggTypeOK'
<1> USE DEF AggTypeOK, machineVars
<1>1. CASE Wake(a)
  <2>1. pc' \in [Agg -> Stages]
    BY <1>1 DEF Wake, Goto, Stages
  <2>2. logs' \in [Agg -> 0..MaxLogs]
    <3>1. CASE logs[a] < MaxLogs
      <4>1. logs[a] + 1 \in 0..MaxLogs
        BY <3>1, MaxLogsAssumption
      <4>2. logs' = [logs EXCEPT ![a] = logs[a] + 1]
        BY <3>1, <1>1 DEF Wake
      <4> QED
        BY <4>1, <4>2
    <3>2. CASE ~(logs[a] < MaxLogs)
      BY <3>2, <1>1 DEF Wake
    <3> QED
      BY <3>1, <3>2
  <2> QED
    BY <1>1, <2>1, <2>2 DEF Wake
<1>2. CASE ConnectMongo(a)
  BY <1>2, ConnectType
<1>3. CASE ConnectPostgres(a)
  BY <1>3 DEF ConnectPostgres, Goto, Stages
<1>4. CASE GetDictData(a)
  BY <1>4 DEF GetDictData, Goto, Stages, Dictionaries
<1>5. CASE Calculate(a)
  <2>1. CalculateAll(stats[a], mapAllData[a], known[a]) \in [Entries -> Nat]
    BY CalculateAllType
  <2>2. stats' \in [Agg -> [Entries -> Nat]]
    BY <1>5, <2>1 DEF Calculate
  <2> QED
    BY <1>5, <2>2 DEF Calculate, Goto, Stages
<1>6. ASSUME NEW job \in todo[a], OpenTable(a, job[1], job[2])
      PROVE  AggTypeOK'
  <2>1. job[2] \in Pg
    OBVIOUS
  <2>2. left' \in [Agg -> SUBSET (Entries \X Pg)]
    BY <1>6, <2>1 DEF OpenTable
  <2> QED
    BY <1>6, <2>2 DEF OpenTable
<1>7. ASSUME NEW job \in left[a], Upsert(a, job[1], job[2])
      PROVE  AggTypeOK'
  <2>1. job[1] \in Entries /\ job[2] \in Pg
    OBVIOUS
  <2>2. stats[a][job[1]] \in Nat
    BY <2>1
  <2>3. res' \in [Pg -> [Entries -> Nat]]
    BY <1>7, <2>1, <2>2 DEF Upsert
  <2> QED
    BY <1>7, <2>3 DEF Upsert
<1>8. CASE CloseDB(a)
  BY <1>8 DEF CloseDB, Goto, Stages
<1> QED
  BY <1>1, <1>2, <1>3, <1>4, <1>5, <1>6, <1>7, <1>8 DEF Step

LEMMA EnvironmentType ==
    ASSUME AggTypeOK, Environment
    PROVE  AggTypeOK'
<1> USE DEF AggTypeOK, aggVars, machineVars
<1>1. CASE MongoOutage
  BY <1>1 DEF MongoOutage
<1>2. ASSUME NEW p \in Pg, PostgresDown(p)
      PROVE  AggTypeOK'
  BY <1>2 DEF PostgresDown
<1>3. ASSUME NEW p \in Pg, PostgresUp(p)
      PROVE  AggTypeOK'
  BY <1>3 DEF PostgresUp
<1>4. CASE PingOutage
  BY <1>4 DEF PingOutage
<1>5. ASSUME NEW a \in Agg, Crash(a)
      PROVE  AggTypeOK'
  <2>1. stats' \in [Agg -> [Entries -> Nat]]
    BY <1>5, NoStatisticsType DEF Crash
  <2> QED
    BY <1>5, <2>1, MaxLogsAssumption DEF Crash, Goto, Stages
<1>6. ASSUME NEW a \in Agg, Restart(a)
      PROVE  AggTypeOK'
  BY <1>6 DEF Restart, Goto, Stages
<1> QED
  BY <1>1, <1>2, <1>3, <1>4, <1>5, <1>6 DEF Environment

LEMMA NextType == TypeOK /\ [Next]_vars => TypeOK'
<1> SUFFICES ASSUME TypeOK, [Next]_vars PROVE TypeOK'
  OBVIOUS
<1>1. CASE StoreStep
  BY <1>1, StoreType DEF TypeOK, StoreStep, AggTypeOK, countVars, aggVars,
                         machineVars, historyVars
<1>2. ASSUME NEW a \in Agg, BeginCycle(a)
      PROVE  TypeOK'
  <2>1. AggTypeOK'
    BY <1>2, ConnectType DEF TypeOK, BeginCycle
  <2> QED
    BY <1>2, <2>1 DEF TypeOK, BeginCycle, storeVars
<1>3. ASSUME NEW a \in Agg, NEW h \in Mongo, Read(a, h)
      PROVE  TypeOK'
  <2>1. h \in Host /\ votes[h] \in SUBSET Row
    BY StoreAssumption DEF TypeOK
  <2>2. AggTypeOK'
    BY <1>3, <2>1, ReadType DEF TypeOK, Read
  <2>3. missed' \in [Agg -> SUBSET Host]
    BY <1>3, <2>1 DEF TypeOK, Read
  <2> QED
    BY <1>3, <2>2, <2>3 DEF TypeOK, Read, storeVars
<1>4. ASSUME NEW a \in Agg, Step(a), UNCHANGED <<storeVars, historyVars>>
      PROVE  TypeOK'
  BY <1>4, StepType DEF TypeOK, storeVars, historyVars
<1>5. CASE Environment /\ UNCHANGED <<storeVars, historyVars>>
  BY <1>5, EnvironmentType DEF TypeOK, storeVars, historyVars
<1>6. CASE UNCHANGED vars
  BY <1>6 DEF TypeOK, vars, AggTypeOK, storeVars, countVars, aggVars,
              machineVars, historyVars
<1> QED
  BY <1>1, <1>2, <1>3, <1>4, <1>5, <1>6 DEF Next, AggregatorStep

(* TypeCorrect: store, aggregators, tables and histories keep to their     *)
(* sets of values in every behaviour.                                      *)
THEOREM TypeCorrect == Spec => []TypeOK
<1> QED
  BY InitType, NextType, PTL DEF Spec

(***************************************************************************)
(* Accepted votes are counted.                                             *)
(***************************************************************************)

(* Documents of different POSTs are different. *)
LEMMA DocumentsDisjoint ==
    ASSUME NEW t \in Tx, NEW u \in Tx, t # u
    PROVE  Documents(t) \cap Documents(u) = {}
  BY DEF Documents

(* The store keeps every accepted vote where it is. *)
LEMMA StoreKeeps ==
    ASSUME TypeOK, AcceptedCopies, StoreNext
    PROVE  /\ AcceptedCopies'
           /\ \A t \in Tx : accepted[t] => accepted'[t] /\ place'[t] = place[t]
<1> SUFFICES ASSUME NEW u \in Tx,
                    \/ Choose(u) \/ Accept(u) \/ Tell(u)
                    \/ \E h \in Host : Add(u, h) \/ TakeBack(u, h)
             PROVE  /\ AcceptedCopies'
                    /\ \A t \in Tx : accepted[t] => accepted'[t] /\ place'[t] = place[t]
  BY DEF StoreNext
<1> USE DEF TypeOK, AcceptedCopies
<1>1. CASE Choose(u)
  BY <1>1 DEF Choose
<1>2. CASE Accept(u)
  BY <1>2 DEF Accept
<1>3. CASE Tell(u)
  BY <1>3 DEF Tell
<1>4. ASSUME NEW h \in Host, Add(u, h)
      PROVE  /\ AcceptedCopies'
             /\ \A t \in Tx : accepted[t] => accepted'[t] /\ place'[t] = place[t]
  <2>1. \A g \in Host : votes[g] \subseteq votes'[g]
    BY <1>4 DEF Add
  <2>2. accepted' = accepted /\ place' = place
    BY <1>4 DEF Add
  <2> QED
    BY <2>1, <2>2
<1>5. ASSUME NEW h \in Host, TakeBack(u, h)
      PROVE  /\ AcceptedCopies'
             /\ \A t \in Tx : accepted[t] => accepted'[t] /\ place'[t] = place[t]
  <2>1. accepted' = accepted /\ place' = place /\ ~accepted[u]
    BY <1>5 DEF TakeBack
  <2>2. \A g \in Host : votes[g] \ Documents(u) \subseteq votes'[g]
    BY <1>5 DEF TakeBack
  <2>3. ASSUME NEW t \in Tx, accepted[t], NEW g \in place[t]
        PROVE  Documents(t) \subseteq votes'[g]
    BY <2>1, <2>2, <2>3, DocumentsDisjoint
  <2> QED
    BY <2>1, <2>3
<1> QED
  BY <1>1, <1>2, <1>3, <1>4, <1>5

LEMMA InitCounts == Init => CountInv
  BY DEF Init, StoreInit, AggInit, CountInv, AcceptedCopies, HasBegun

(* What a cycle has got or missed does not go while it runs: no step but   *)
(* its own beginning takes a host, a document or a missed instance away.   *)
LEMMA CountKept ==
    ASSUME TypeOK, CountInv,
           AcceptedCopies', UNCHANGED <<accepted, place>>,
           UNCHANGED <<before, missed>>,
           \A a \in Agg : HasBegun(a)' =>
               /\ HasBegun(a)
               /\ unread'[a] = unread[a] /\ mapAllData'[a] = mapAllData[a],
           \A a \in Agg : pc'[a] = "inserting" => unread'[a] = {}
    PROVE  CountInv'
  BY DEF CountInv, TypeOK

LEMMA StepCounts ==
    ASSUME TypeOK, CountInv, NEW a \in Agg, Step(a), pc[a] # "mongo",
           UNCHANGED <<storeVars, historyVars>>
    PROVE  CountInv'
<1> USE DEF TypeOK, AggTypeOK, storeVars, historyVars
<1>1. AcceptedCopies'
  BY DEF CountInv, AcceptedCopies
<1>2. /\ \A b \in Agg : HasBegun(b)' =>
             /\ HasBegun(b)
             /\ unread'[b] = unread[b] /\ mapAllData'[b] = mapAllData[b]
      /\ \A b \in Agg : pc'[b] = "inserting" => unread'[b] = {}
  <2> USE DEF HasBegun, Goto, CountInv
  <2>1. CASE Wake(a)
    BY <2>1 DEF Wake
  <2>2. CASE ConnectMongo(a)
    BY <2>2 DEF ConnectMongo
  <2>3. CASE ConnectPostgres(a)
    BY <2>3 DEF ConnectPostgres
  <2>4. CASE GetDictData(a)
    BY <2>4 DEF GetDictData, Dictionaries
  <2>5. CASE Calculate(a)
    BY <2>5 DEF Calculate
  <2>6. CASE \E job \in todo[a] : OpenTable(a, job[1], job[2])
    BY <2>6 DEF OpenTable
  <2>7. CASE \E job \in left[a] : Upsert(a, job[1], job[2])
    BY <2>7 DEF Upsert
  <2>8. CASE CloseDB(a)
    BY <2>8 DEF CloseDB
  <2> QED
    BY <2>1, <2>2, <2>3, <2>4, <2>5, <2>6, <2>7, <2>8 DEF Step
<1> QED
  BY <1>1, <1>2, CountKept

LEMMA EnvironmentCounts ==
    ASSUME TypeOK, CountInv, Environment, UNCHANGED <<storeVars, historyVars>>
    PROVE  CountInv'
<1> USE DEF TypeOK, AggTypeOK, storeVars, historyVars
<1>1. AcceptedCopies'
  BY DEF CountInv, AcceptedCopies
<1>2. /\ \A b \in Agg : HasBegun(b)' =>
             /\ HasBegun(b)
             /\ unread'[b] = unread[b] /\ mapAllData'[b] = mapAllData[b]
      /\ \A b \in Agg : pc'[b] = "inserting" => unread'[b] = {}
  <2> USE DEF HasBegun, Goto, CountInv, aggVars
  <2>1. CASE MongoOutage \/ PingOutage
    BY <2>1 DEF MongoOutage, PingOutage
  <2>2. CASE \E p \in Pg : PostgresDown(p) \/ PostgresUp(p)
    BY <2>2 DEF PostgresDown, PostgresUp
  <2>3. ASSUME NEW c \in Agg, Crash(c) \/ Restart(c)
        PROVE  \A b \in Agg :
                   /\ HasBegun(b)' => /\ HasBegun(b)
                                      /\ unread'[b] = unread[b]
                                      /\ mapAllData'[b] = mapAllData[b]
                   /\ pc'[b] = "inserting" => unread'[b] = {}
    <3>1. pc'[c] \in {"exited", "sleeping"}
      BY <2>3 DEF Crash, Restart
    <3>2. \A b \in Agg \ {c} : /\ pc'[b] = pc[b] /\ unread'[b] = unread[b]
                               /\ mapAllData'[b] = mapAllData[b]
      BY <2>3 DEF Crash, Restart
    <3> QED
      BY <3>1, <3>2
  <2> QED
    BY <2>1, <2>2, <2>3 DEF Environment
<1> QED
  BY <1>1, <1>2, CountKept

(* A cycle begins with every host still to be read. *)
LEMMA BeginCounts ==
    ASSUME TypeOK, CountInv, NEW a \in Agg, BeginCycle(a)
    PROVE  CountInv'
<1> USE DEF TypeOK, AggTypeOK, storeVars
<1>1. AcceptedCopies' /\ UNCHANGED <<accepted, place>>
  BY DEF CountInv, AcceptedCopies, BeginCycle
<1>2. \A b \in Agg : \A t \in before'[b] : accepted'[t]
  BY <1>1 DEF CountInv, BeginCycle
<1>3. unread'[a] = Host /\ pc'[a] = "postgres"
  BY StoreAssumption DEF BeginCycle, ConnectMongo, Goto
<1>4. \A b \in Agg \ {a} :
          /\ pc'[b] = pc[b] /\ unread'[b] = unread[b] /\ missed'[b] = missed[b]
          /\ mapAllData'[b] = mapAllData[b] /\ before'[b] = before[b]
  BY DEF BeginCycle, ConnectMongo, Goto
<1>5. ASSUME NEW b \in Agg, HasBegun(b)', NEW t \in before'[b], NEW h \in place'[t]
      PROVE  h \in unread'[b] \/ h \in missed'[b] \/ Documents(t) \subseteq mapAllData'[b]
  <2>1. CASE b = a
    <3>1. t \in Tx
      BY <2>1, <1>5 DEF BeginCycle
    <3>2. h \in Host
      BY <3>1, <1>1, <1>5
    <3> QED
      BY <2>1, <3>2, <1>3
  <2>2. CASE b # a
    BY <2>2, <1>1, <1>4, <1>5 DEF CountInv, HasBegun
  <2> QED
    BY <2>1, <2>2
<1>6. \A b \in Agg : pc'[b] = "inserting" => unread'[b] = {}
  BY <1>3, <1>4 DEF CountInv
<1> QED
  BY <1>1, <1>2, <1>5, <1>6 DEF CountInv

(* An instance that is read gives the documents it has, or is missed. *)
LEMMA ReadCounts ==
    ASSUME TypeOK, CountInv, NEW a \in Agg, NEW h \in Mongo, Read(a, h)
    PROVE  CountInv'
<1> USE DEF TypeOK, AggTypeOK, storeVars
<1>1. /\ AcceptedCopies' /\ UNCHANGED <<accepted, place, before, pc>>
      /\ pc[a] = "reading"
  BY DEF CountInv, AcceptedCopies, Read, ReadInstance
<1>2. /\ unread'[a] = unread[a] \ {h}
      /\ mapAllData'[a] = mapAllData[a] \cup Found(h, votes[h])
      /\ missed'[a] = IF Found(h, votes[h]) = votes[h] THEN missed[a]
                                                     ELSE missed[a] \cup {h}
  BY DEF Read, ReadInstance
<1>3. \A b \in Agg \ {a} :
          /\ unread'[b] = unread[b] /\ missed'[b] = missed[b]
          /\ mapAllData'[b] = mapAllData[b]
  BY DEF Read, ReadInstance
<1>4. ASSUME NEW b \in Agg, HasBegun(b)', NEW t \in before'[b], NEW g \in place'[t]
      PROVE  g \in unread'[b] \/ g \in missed'[b] \/ Documents(t) \subseteq mapAllData'[b]
  <2>1. t \in Tx /\ accepted[t] /\ g \in place[t] /\ HasBegun(b) /\ t \in before[b]
    BY <1>1, <1>4 DEF CountInv, HasBegun
  <2>2. g \in unread[b] \/ g \in missed[b] \/ Documents(t) \subseteq mapAllData[b]
    BY <2>1 DEF CountInv
  <2>3. Documents(t) \subseteq votes[g]
    BY <2>1 DEF CountInv, AcceptedCopies
  <2>4. CASE b = a /\ g = h
    BY <2>2, <2>3, <2>4, <1>2
  <2>5. CASE b = a /\ g # h
    BY <2>2, <2>5, <1>2
  <2>6. CASE b # a
    BY <2>2, <2>6, <1>3
  <2> QED
    BY <2>4, <2>5, <2>6
<1>5. /\ \A b \in Agg : \A t \in before'[b] : accepted'[t]
      /\ \A b \in Agg : pc'[b] = "inserting" => unread'[b] = {}
  BY <1>1, <1>3 DEF CountInv
<1> QED
  BY <1>1, <1>4, <1>5 DEF CountInv

LEMMA NextCounts == TypeOK /\ CountInv /\ [Next]_vars => CountInv'
<1> SUFFICES ASSUME TypeOK, CountInv, [Next]_vars PROVE CountInv'
  OBVIOUS
<1>1. CASE StoreStep
  <2>1. /\ AcceptedCopies'
        /\ \A t \in Tx : accepted[t] => accepted'[t] /\ place'[t] = place[t]
    BY <1>1, StoreKeeps DEF StoreStep, CountInv
  <2>2. UNCHANGED <<pc, unread, mapAllData, before, missed>>
    BY <1>1 DEF StoreStep, countVars, aggVars, historyVars
  <2>3. \A a \in Agg : before[a] \subseteq Tx
    BY DEF TypeOK
  <2> QED
    BY <2>1, <2>2, <2>3 DEF CountInv, HasBegun
<1>2. ASSUME NEW a \in Agg, BeginCycle(a)
      PROVE  CountInv'
  BY <1>2, BeginCounts
<1>3. ASSUME NEW a \in Agg, NEW h \in Mongo, Read(a, h)
      PROVE  CountInv'
  BY <1>3, ReadCounts
<1>4. ASSUME NEW a \in Agg, Step(a), pc[a] # "mongo", UNCHANGED <<storeVars, historyVars>>
      PROVE  CountInv'
  BY <1>4, StepCounts
<1>5. CASE Environment /\ UNCHANGED <<storeVars, historyVars>>
  BY <1>5, EnvironmentCounts
<1>6. CASE UNCHANGED vars
  BY <1>6 DEF vars, CountInv, AcceptedCopies, HasBegun, storeVars, countVars,
              aggVars, historyVars
<1> QED
  BY <1>1, <1>2, <1>3, <1>4, <1>5, <1>6 DEF Next, AggregatorStep

(* The Copies hosts of a vote cannot all be among fewer missed instances.  *)
LEMMA CountInvCounts == TypeOK /\ CountInv => AcceptedAreCounted
<1> SUFFICES ASSUME TypeOK, CountInv, NEW a \in Agg, pc[a] = "inserting",
                    NEW t \in before[a], Cardinality(missed[a]) < Copies
             PROVE  Documents(t) \subseteq mapAllData[a]
  BY DEF AcceptedAreCounted
<1>1. t \in Tx /\ accepted[t] /\ unread[a] = {} /\ HasBegun(a)
  BY DEF TypeOK, CountInv, HasBegun
<1>2. Cardinality(place[t]) = Copies
  BY <1>1 DEF CountInv, AcceptedCopies
<1>3. IsFiniteSet(missed[a])
  BY StoreAssumption, FS_Subset DEF TypeOK
<1>4. ~(place[t] \subseteq missed[a])
  <2>1. ASSUME place[t] \subseteq missed[a] PROVE FALSE
    <3>1. Cardinality(place[t]) <= Cardinality(missed[a])
      BY <2>1, <1>3, FS_Subset
    <3>2. Cardinality(missed[a]) \in Nat /\ Copies \in Nat
      BY <1>3, FS_CardinalityType, StoreAssumption
    <3> QED
      BY <3>1, <3>2, <1>2
  <2> QED
    BY <2>1
<1>5. PICK h \in place[t] : h \notin missed[a]
  BY <1>4
<1> QED
  BY <1>1, <1>5 DEF CountInv

(* CountInvariance: CountInv holds in every state of every behaviour. *)
THEOREM CountInvariance == Spec => []CountInv
<1>1. TypeOK /\ CountInv /\ TypeOK' /\ [Next]_vars => CountInv'
  BY NextCounts
<1> QED
  BY <1>1, InitCounts, TypeCorrect, PTL DEF Spec

(* NoAcceptedVoteMissed: a cycle counts every vote accepted before it      *)
(* began, whatever fails, as long as it gets something from all but        *)
(* REDUNDANCY - 1 instances.                                               *)
THEOREM NoAcceptedVoteMissed == Spec => []AcceptedAreCounted
<1> QED
  BY CountInvariance, TypeCorrect, CountInvCounts, PTL

(***************************************************************************)
(* What is counted is published.                                           *)
(***************************************************************************)

LEMMA InitPublishes == Init => PublishInv
  BY DEF Init, AggInit, PublishInv

(* An aggregator opens all tables of all instances when it has counted.    *)
LEMMA CalculatePublishes ==
    ASSUME TypeOK, PublishInv, NEW a \in Agg, Calculate(a)
    PROVE  PublishInv'
<1> SUFFICES ASSUME Agg = {a}, NEW p \in conn'[a], NEW e \in Entries
             PROVE  <<e[1], p>> \in todo'[a]
  BY DEF PublishInv
<1>1. p \in Pg
  BY DEF Calculate, TypeOK, AggTypeOK
<1>2. e[1] \in Tables
  BY DEF Entries
<1> QED
  BY <1>1, <1>2 DEF Calculate, TypeOK, AggTypeOK

(* A table that is opened leaves the list, its rows come on the other.     *)
LEMMA OpenPublishes ==
    ASSUME TypeOK, PublishInv, NEW a \in Agg, NEW job \in todo[a],
           OpenTable(a, job[1], job[2])
    PROVE  PublishInv'
<1> USE DEF TypeOK, AggTypeOK
<1> SUFFICES ASSUME Agg = {a}, NEW p \in conn[a], NEW e \in Entries,
                    ForeignKeyOk(e), stats[a][e] > 0
             PROVE  \/ <<e[1], p>> \in todo'[a]
                    \/ <<e, p>> \in left'[a]
                    \/ res'[p][e] = stats'[a][e]
  BY DEF PublishInv, OpenTable
<1>1. /\ pc[a] = "inserting" /\ left[a] = {}
      /\ UNCHANGED <<res, stats>>
      /\ todo'[a] = todo[a] \ {<<job[1], job[2]>>}
      /\ left'[a] = {<<d, job[2]>> : d \in {c \in Entries :
                         c[1] = job[1] /\ stats[a][c] > 0 /\ job[2] \in conn[a]}}
  BY DEF OpenTable
<1>2. <<e[1], p>> \in todo[a] \/ res[p][e] = stats[a][e]
  BY <1>1 DEF PublishInv
<1>3. CASE <<e[1], p>> = <<job[1], job[2]>>
  BY <1>1, <1>3
<1>4. CASE <<e[1], p>> # <<job[1], job[2]>>
  BY <1>1, <1>2, <1>4
<1> QED
  BY <1>3, <1>4

(* A row that leaves the list of rows is in the table then. *)
LEMMA UpsertPublishes ==
    ASSUME TypeOK, PublishInv, NEW a \in Agg, NEW job \in left[a],
           Upsert(a, job[1], job[2])
    PROVE  PublishInv'
<1> USE DEF TypeOK, AggTypeOK
<1>0. job[1] \in Entries /\ job[2] \in Pg /\ job = <<job[1], job[2]>>
  OBVIOUS
<1>1. /\ UNCHANGED <<pc, stats, todo, conn>>
      /\ left'[a] = left[a] \ {job}
      /\ res' = [res EXCEPT ![job[2]][job[1]] =
                     IF job[2] \in conn[a] /\ ForeignKeyOk(job[1])
                     THEN stats[a][job[1]] ELSE @]
  BY <1>0 DEF Upsert
<1> SUFFICES ASSUME Agg = {a}, pc[a] = "inserting",
                    NEW p \in conn[a], NEW e \in Entries,
                    ForeignKeyOk(e), stats[a][e] > 0
             PROVE  \/ <<e[1], p>> \in todo[a]
                    \/ <<e, p>> \in left'[a]
                    \/ res'[p][e] = stats[a][e]
  BY <1>1 DEF PublishInv
<1>2. p \in Pg
  OBVIOUS
<1>3. CASE <<e, p>> = job
  <2>1. job[1] = e /\ job[2] = p
    BY <1>3
  <2>2. res' = [res EXCEPT ![p][e] = stats[a][e]]
    BY <1>1, <2>1
  <2> QED
    BY <2>2, <1>2
<1>4. CASE <<e, p>> # job
  <2>1. p # job[2] \/ e # job[1]
    BY <1>0, <1>4
  <2>2. res'[p][e] = res[p][e]
    BY <1>0, <1>1, <1>2, <2>1
  <2>3. \/ <<e[1], p>> \in todo[a]
        \/ <<e, p>> \in left[a]
        \/ res[p][e] = stats[a][e]
    BY DEF PublishInv
  <2> QED
    BY <1>1, <1>4, <2>2, <2>3
<1> QED
  BY <1>3, <1>4

(* Steps that leave an inserting aggregator its lists, and its connections *)
(* or fewer, publish nothing wrong.                                        *)
LEMMA PublishKept ==
    ASSUME PublishInv, UNCHANGED res,
           \A a \in Agg : pc'[a] = "inserting" =>
               /\ pc[a] = "inserting"
               /\ stats'[a] = stats[a] /\ todo'[a] = todo[a] /\ left'[a] = left[a]
               /\ conn'[a] \subseteq conn[a]
    PROVE  PublishInv'
  BY DEF PublishInv

LEMMA StepPublishes ==
    ASSUME TypeOK, PublishInv, NEW a \in Agg, Step(a)
    PROVE  PublishInv'
<1> USE DEF TypeOK, AggTypeOK, Goto
<1>1. CASE Wake(a)
  BY <1>1, PublishKept DEF Wake
<1>2. CASE ConnectMongo(a)
  BY <1>2, PublishKept DEF ConnectMongo
<1>3. CASE ConnectPostgres(a)
  BY <1>3, PublishKept DEF ConnectPostgres
<1>4. CASE GetDictData(a)
  BY <1>4, PublishKept DEF GetDictData
<1>5. CASE Calculate(a)
  BY <1>5, CalculatePublishes
<1>6. CASE \E job \in todo[a] : OpenTable(a, job[1], job[2])
  BY <1>6, OpenPublishes
<1>7. CASE \E job \in left[a] : Upsert(a, job[1], job[2])
  BY <1>7, UpsertPublishes
<1>8. CASE CloseDB(a)
  BY <1>8, PublishKept DEF CloseDB
<1> QED
  BY <1>1, <1>2, <1>3, <1>4, <1>5, <1>6, <1>7, <1>8 DEF Step

LEMMA EnvironmentPublishes ==
    ASSUME TypeOK, PublishInv, Environment
    PROVE  PublishInv'
<1> USE DEF TypeOK, AggTypeOK, aggVars, machineVars
<1>1. CASE MongoOutage \/ PingOutage
  BY <1>1, PublishKept DEF MongoOutage, PingOutage
<1>2. ASSUME NEW p \in Pg, PostgresDown(p)
      PROVE  PublishInv'
  BY <1>2, PublishKept DEF PostgresDown
<1>3. ASSUME NEW p \in Pg, PostgresUp(p)
      PROVE  PublishInv'
  BY <1>3, PublishKept DEF PostgresUp
<1>4. ASSUME NEW c \in Agg, Crash(c) \/ Restart(c)
      PROVE  PublishInv'
  <2>1. pc'[c] # "inserting" /\ UNCHANGED res
    BY <1>4 DEF Crash, Restart, Goto
  <2>2. \A b \in Agg \ {c} :
            /\ pc'[b] = pc[b] /\ stats'[b] = stats[b] /\ todo'[b] = todo[b]
            /\ left'[b] = left[b] /\ conn'[b] = conn[b]
    BY <1>4 DEF Crash, Restart, Goto
  <2> QED
    BY <2>1, <2>2, PublishKept
<1> QED
  BY <1>1, <1>2, <1>3, <1>4 DEF Environment

LEMMA NextPublishes == TypeOK /\ PublishInv /\ [Next]_vars => PublishInv'
<1> SUFFICES ASSUME TypeOK, PublishInv, [Next]_vars PROVE PublishInv'
  OBVIOUS
<1>1. CASE StoreStep \/ UNCHANGED vars
  BY <1>1, PublishKept DEF StoreStep, vars, countVars, aggVars
<1>2. ASSUME NEW a \in Agg, BeginCycle(a)
      PROVE  PublishInv'
  <2>1. Step(a)
    BY <1>2 DEF BeginCycle, Step
  <2> QED
    BY <2>1, StepPublishes
<1>3. ASSUME NEW a \in Agg, NEW h \in Mongo, Read(a, h)
      PROVE  PublishInv'
  BY <1>3, PublishKept DEF Read, ReadInstance
<1>4. ASSUME NEW a \in Agg, Step(a)
      PROVE  PublishInv'
  BY <1>4, StepPublishes
<1>5. CASE Environment
  BY <1>5, EnvironmentPublishes
<1> QED
  BY <1>1, <1>2, <1>3, <1>4, <1>5 DEF Next, AggregatorStep

(* PublishInvariance: while the only aggregator inserts, each of its        *)
(* numbers is still to be written or is in the database.                   *)
THEOREM PublishInvariance == Spec => []PublishInv
<1>1. TypeOK /\ PublishInv /\ TypeOK' /\ [Next]_vars => PublishInv'
  BY NextPublishes
<1> QED
  BY <1>1, InitPublishes, TypeCorrect, PTL DEF Spec

(* Publication: what the only aggregator has counted is what every         *)
(* instance still connected shows, whatever rows and instances failed.     *)
THEOREM Publication == Spec => []TablesPublished
<1>1. PublishInv => TablesPublished
  BY DEF PublishInv, TablesPublished
<1> QED
  BY <1>1, PublishInvariance, PTL

(***************************************************************************)
(* The tables are what the results application expects.                    *)
(***************************************************************************)

(* The rows an aggregator has still to write have numbers, and there are   *)
(* none while it counts.                                                   *)
RowsCounted ==
    \A a \in Agg :
        /\ left[a] # {} => pc[a] = "inserting"
        /\ \A job \in left[a] : stats[a][job[1]] > 0

LEMMA InitRows == Init => RowsCounted
  BY DEF Init, AggInit, RowsCounted

(* Steps that add no row to those to write, and count nothing meanwhile.   *)
LEMMA RowsKept ==
    ASSUME RowsCounted,
           \A a \in Agg : left'[a] # {} =>
               /\ left'[a] \subseteq left[a]
               /\ stats'[a] = stats[a] /\ pc'[a] = pc[a]
    PROVE  RowsCounted'
  BY DEF RowsCounted

LEMMA StepRows ==
    ASSUME TypeOK, RowsCounted, NEW a \in Agg, Step(a)
    PROVE  RowsCounted'
<1> USE DEF TypeOK, AggTypeOK, Goto
<1>1. CASE Wake(a)
  BY <1>1, RowsKept DEF Wake, RowsCounted
<1>2. CASE ConnectMongo(a)
  BY <1>2, RowsKept DEF ConnectMongo, RowsCounted
<1>3. CASE ConnectPostgres(a)
  BY <1>3, RowsKept DEF ConnectPostgres, RowsCounted
<1>4. CASE GetDictData(a)
  BY <1>4, RowsKept DEF GetDictData, RowsCounted, Dictionaries
<1>5. CASE Calculate(a)
  BY <1>5, RowsKept DEF Calculate, RowsCounted
<1>6. ASSUME NEW job \in todo[a], OpenTable(a, job[1], job[2])
      PROVE  RowsCounted'
  BY <1>6 DEF OpenTable, RowsCounted
<1>7. ASSUME NEW job \in left[a], Upsert(a, job[1], job[2])
      PROVE  RowsCounted'
  BY <1>7, RowsKept DEF Upsert
<1>8. CASE CloseDB(a)
  BY <1>8, RowsKept DEF CloseDB
<1> QED
  BY <1>1, <1>2, <1>3, <1>4, <1>5, <1>6, <1>7, <1>8 DEF Step

LEMMA NextRows == TypeOK /\ RowsCounted /\ [Next]_vars => RowsCounted'
<1> SUFFICES ASSUME TypeOK, RowsCounted, [Next]_vars PROVE RowsCounted'
  OBVIOUS
<1> USE DEF TypeOK, AggTypeOK
<1>1. CASE StoreStep \/ UNCHANGED vars
  BY <1>1, RowsKept DEF StoreStep, vars, countVars, aggVars
<1>2. ASSUME NEW a \in Agg, BeginCycle(a)
      PROVE  RowsCounted'
  BY <1>2, StepRows DEF BeginCycle, Step
<1>3. ASSUME NEW a \in Agg, NEW h \in Mongo, Read(a, h)
      PROVE  RowsCounted'
  BY <1>3, RowsKept DEF Read, ReadInstance
<1>4. ASSUME NEW a \in Agg, Step(a)
      PROVE  RowsCounted'
  BY <1>4, StepRows
<1>5. CASE Environment
  <2>1. CASE MongoOutage \/ PingOutage \/ \E p \in Pg : PostgresDown(p) \/ PostgresUp(p)
    BY <2>1, RowsKept DEF MongoOutage, PingOutage, PostgresDown, PostgresUp, aggVars
  <2>2. ASSUME NEW c \in Agg, Crash(c)
        PROVE  RowsCounted'
    BY <2>2, RowsKept DEF Crash, Goto
  <2>3. ASSUME NEW c \in Agg, Restart(c)
        PROVE  RowsCounted'
    BY <2>3, RowsKept DEF Restart, Goto, RowsCounted
  <2> QED
    BY <1>5, <2>1, <2>2, <2>3 DEF Environment
<1> QED
  BY <1>1, <1>2, <1>3, <1>4, <1>5 DEF Next, AggregatorStep

(* The only step that changes a table writes a row of it. *)
LEMMA UpsertWrites ==
    ASSUME TypeOK, RowsCounted, NEW a \in Agg, NEW job \in left[a],
           Upsert(a, job[1], job[2]), NEW p \in Pg
    PROVE  UNCHANGED res[p] \/ TablesOf(p)!TabNext
<1> USE DEF TypeOK, AggTypeOK
<1> DEFINE e == job[1]
<1>1. /\ e \in Entries /\ job[2] \in Pg
      /\ stats[a][e] \in Nat \ {0}
      /\ res \in [Pg -> [Entries -> Nat]]
  BY DEF RowsCounted
<1>2. CASE p = job[2] /\ p \in conn[a] /\ ForeignKeyOk(e)
  <2>1. res'[p] = [res[p] EXCEPT ![e] = stats[a][e]]
    BY <1>1, <1>2 DEF Upsert
  <2>2. res'[p][e] = stats[a][e] /\ e \in AllowedEntries
    BY <1>1, <1>2, <2>1 DEF AllowedEntries
  <2> QED
    BY <1>1, <2>1, <2>2 DEF TablesOf!TabNext, TablesOf!WriteRow
<1>3. CASE ~(p = job[2] /\ p \in conn[a] /\ ForeignKeyOk(e))
  BY <1>1, <1>3 DEF Upsert
<1> QED
  BY <1>2, <1>3

LEMMA NextWrites ==
    TypeOK /\ RowsCounted /\ [Next]_vars =>
        [\A p \in Pg : UNCHANGED res[p] \/ TablesOf(p)!TabNext]_res
<1> SUFFICES ASSUME TypeOK, RowsCounted, [Next]_vars, NEW p \in Pg, res' # res
             PROVE  UNCHANGED res[p] \/ TablesOf(p)!TabNext
  OBVIOUS
<1>1. PICK a \in Agg : Step(a)
  BY DEF Next, StoreStep, vars, countVars, AggregatorStep, BeginCycle, ConnectMongo,
         Read, ReadInstance, Environment, MongoOutage, PostgresDown, PostgresUp,
         PingOutage, Crash, Restart
<1>2. PICK job \in left[a] : Upsert(a, job[1], job[2])
  BY <1>1 DEF Step, Wake, ConnectMongo, ConnectPostgres, GetDictData, Calculate,
              OpenTable, CloseDB
<1> QED
  BY <1>2, UpsertWrites

(* TablesImplemented: the tables of each instance are those the results    *)
(* application expects, for any aggregators and outages.                   *)
THEOREM TablesImplemented == Spec => ImplementsTables
<1>1. Init => \A p \in Pg : TablesOf(p)!TabInit
  BY DEF Init, AggInit, NoStatistics, TablesOf!TabInit
<1>2. TypeOK /\ RowsCounted /\ TypeOK' /\ [Next]_vars => RowsCounted'
  BY NextRows
<1>3. TypeOK /\ RowsCounted /\ [Next]_vars =>
          [\A p \in Pg : UNCHANGED res[p] \/ TablesOf(p)!TabNext]_res
  BY NextWrites
<1> QED
  BY <1>1, <1>2, <1>3, InitRows, TypeCorrect, PTL DEF Spec, ImplementsTables


(***************************************************************************)
(* The results never show more votes than there are, as long as a process  *)
(* makes one cycle.                                                        *)
(***************************************************************************)
BeforeCounting == {"mongo", "postgres", "d_candidates", "d_age", "reading"}

(* Statistics are empty until the only cycle has been counted; neither     *)
(* they nor the tables hold more than one vote of a row for a key.         *)
CountedOnce ==
    /\ \A a \in Agg :
          /\ mapAllData[a] \subseteq Readable
          /\ pc[a] \in BeforeCounting \cup {"inserting"} => logs[a] # 0
          /\ pc[a] \in BeforeCounting \/ logs[a] = 0 => stats[a] = NoStatistics
          /\ \A e \in Entries : stats[a][e] <= Cardinality(Voters(e))
    /\ VotesSumCountsVotes

(* The votes for a key can be counted. *)
LEMMA VotersFinite ==
    ASSUME NEW e
    PROVE  IsFiniteSet(Voters(e)) /\ Cardinality(Voters(e)) \in Nat
<1>1. IsFiniteSet({e} \X Row)
  BY RowsFinite, FS_Singleton, FS_Product
<1>2. Voters(e) \subseteq {e} \X Row
  BY DEF Voters, MayCount, Readable
<1> QED
  BY <1>1, <1>2, FS_Subset, FS_CardinalityType

(* Rows that calculateAll counts for a key are votes that may count for it. *)
LEMMA CountedVote ==
    ASSUME NEW rows \in SUBSET Readable, NEW dictionaries \in SUBSET Dictionaries,
           NEW e \in Entries
    PROVE  Cardinality(Counted(e, rows, dictionaries)) <= Cardinality(Voters(e))
<1> DEFINE C == Counted(e, rows, dictionaries)
           vote == [r \in C |-> <<e, r>>]
<1>1. e[1] \in Tables /\ e = <<e[1], e[2]>>
  BY DEF Entries
<1>2. ASSUME NEW r \in C
      PROVE  <<e, r>> \in Voters(e)
  <2>1. r \in Readable /\ KeysOf(r, dictionaries)[e[1]] = e[2]
    BY DEF Counted
  <2>2. <<e, r>> = <<<<e[1], KeysOf(r, dictionaries)[e[1]]>>, r>>
    BY <1>1, <2>1
  <2>3. <<e, r>> \in MayCount
    BY <1>1, <2>1, <2>2 DEF MayCount
  <2> QED
    BY <2>3 DEF Voters
<1>3. vote \in Injection(C, Voters(e))
  BY <1>2 DEF Injection, IsInjective
<1> QED
  BY <1>3, VotersFinite, FS_Injection

LEMMA InitOnce == Init => CountedOnce
<1> SUFFICES ASSUME Init PROVE CountedOnce
  OBVIOUS
<1>1. \A e \in Entries : NoStatistics[e] <= Cardinality(Voters(e))
  BY VotersFinite DEF NoStatistics
<1> QED
  BY <1>1 DEF Init, AggInit, CountedOnce, BeforeCounting, VotesSumCountsVotes

(* Steps of others than the one that counts leave statistics and tables,   *)
(* or put the statistics back to nothing.                                  *)
LEMMA OnceKept ==
    ASSUME CountedOnce, UNCHANGED res,
           \A a \in Agg :
              \/ /\ mapAllData'[a] \subseteq Readable
                 /\ logs'[a] = logs[a] /\ stats'[a] = stats[a]
                 /\ pc'[a] \in BeforeCounting => pc[a] \in BeforeCounting
                 /\ pc'[a] = "inserting" => pc[a] = "inserting"
              \/ /\ mapAllData'[a] = {}
                 /\ logs'[a] = 0 /\ stats'[a] = NoStatistics
                 /\ pc'[a] = "exited"
    PROVE  CountedOnce'
<1>1. \A e \in Entries : NoStatistics[e] <= Cardinality(Voters(e))
  BY VotersFinite DEF NoStatistics
<1>2. VotesSumCountsVotes'
  BY DEF CountedOnce, VotesSumCountsVotes
<1>3. ASSUME NEW a \in Agg
      PROVE  /\ mapAllData'[a] \subseteq Readable
             /\ pc'[a] \in BeforeCounting \cup {"inserting"} => logs'[a] # 0
             /\ pc'[a] \in BeforeCounting \/ logs'[a] = 0 => stats'[a] = NoStatistics
             /\ \A e \in Entries : stats'[a][e] <= Cardinality(Voters(e))
  BY <1>1 DEF CountedOnce, BeforeCounting
<1> QED
  BY <1>2, <1>3 DEF CountedOnce

LEMMA StepOnce ==
    ASSUME MaxLogs <= 1, TypeOK, CountedOnce, NEW a \in Agg, Step(a)
    PROVE  CountedOnce'
<1> USE DEF TypeOK, AggTypeOK, Goto
<1>1. CASE Wake(a)
  <2>1. CASE logs[a] < MaxLogs
    <3>1. logs[a] = 0
      <4>1. logs[a] \in 0..MaxLogs
        OBVIOUS
      <4>2. logs[a] \in Nat /\ MaxLogs \in Nat /\ logs[a] < MaxLogs /\ MaxLogs <= 1
        BY <2>1, <4>1, MaxLogsAssumption
      <4> HIDE DEF TypeOK, AggTypeOK
      <4> QED
        BY <4>2
    <3>2. /\ logs' = [logs EXCEPT ![a] = @ + 1] /\ pc' = [pc EXCEPT ![a] = "mongo"]
          /\ UNCHANGED <<mapAllData, stats, res>>
      BY <1>1, <2>1 DEF Wake
    <3>3. logs'[a] = 1 /\ pc'[a] = "mongo" /\ stats'[a] = NoStatistics
      BY <3>1, <3>2 DEF CountedOnce
    <3>4. \A b \in Agg \ {a} : logs'[b] = logs[b] /\ pc'[b] = pc[b]
      BY <3>2
    <3>5. VotesSumCountsVotes'
      BY <3>2 DEF CountedOnce, VotesSumCountsVotes
    <3> QED
      BY <3>2, <3>3, <3>4, <3>5 DEF CountedOnce
  <2>2. CASE ~(logs[a] < MaxLogs)
    BY <1>1, <2>2, OnceKept DEF Wake, CountedOnce, BeforeCounting
  <2> QED
    BY <2>1, <2>2
<1>2. CASE ConnectMongo(a) \/ ConnectPostgres(a) \/ GetDictData(a)
  BY <1>2, OnceKept
  DEF ConnectMongo, ConnectPostgres, GetDictData, CountedOnce, BeforeCounting, Dictionaries
<1>3. CASE Calculate(a)
  <2> DEFINE sum == CalculateAll(stats[a], mapAllData[a], known[a])
  <2>1. /\ stats' = [stats EXCEPT ![a] = sum]
        /\ pc' = [pc EXCEPT ![a] = "inserting"]
        /\ pc[a] = "reading"
        /\ UNCHANGED <<logs, mapAllData, res>>
    BY <1>3 DEF Calculate
  <2>2. stats[a] = NoStatistics /\ logs[a] # 0
    BY <2>1 DEF CountedOnce, BeforeCounting
  <2>3. ASSUME NEW e \in Entries
        PROVE  sum[e] <= Cardinality(Voters(e))
    <3>1. sum[e] = stats[a][e] + Cardinality(Counted(e, mapAllData[a], known[a]))
      BY DEF CalculateAll
    <3>4. stats[a][e] = 0
      BY <2>2 DEF NoStatistics
    <3>2. Cardinality(Counted(e, mapAllData[a], known[a])) \in Nat
      <4>1. Counted(e, mapAllData[a], known[a]) \subseteq Row
        BY DEF Counted
      <4> QED
        BY <4>1, RowsFinite, FS_Subset, FS_CardinalityType
    <3>3. Cardinality(Counted(e, mapAllData[a], known[a])) <= Cardinality(Voters(e))
      BY CountedVote DEF CountedOnce
    <3> QED
      BY <3>1, <3>2, <3>3, <3>4
  <2> HIDE DEF sum
  <2>4. /\ stats'[a] = sum /\ pc'[a] = "inserting"
        /\ \A b \in Agg \ {a} : stats'[b] = stats[b] /\ pc'[b] = pc[b]
    BY <2>1
  <2>5. VotesSumCountsVotes'
    BY <2>1 DEF CountedOnce, VotesSumCountsVotes
  <2>6. "inserting" \notin BeforeCounting
    BY DEF BeforeCounting
  <2> QED
    BY <2>1, <2>2, <2>3, <2>4, <2>5, <2>6 DEF CountedOnce
<1>4. ASSUME NEW job \in todo[a], OpenTable(a, job[1], job[2])
      PROVE  CountedOnce'
  BY <1>4, OnceKept DEF OpenTable, CountedOnce
<1>5. ASSUME NEW job \in left[a], Upsert(a, job[1], job[2])
      PROVE  CountedOnce'
  <2> DEFINE e == job[1]
             p == job[2]
  <2>1. e \in Entries /\ p \in Pg
    OBVIOUS
  <2>2. /\ res' = [res EXCEPT ![p][e] = IF p \in conn[a] /\ ForeignKeyOk(e)
                                        THEN stats[a][e] ELSE @]
        /\ UNCHANGED <<pc, logs, mapAllData, stats>>
    BY <1>5 DEF Upsert
  <2> HIDE DEF e, p
  <2>3. \A q \in Pg, d \in Entries : res'[q][d] = res[q][d] \/ (d = e /\ res'[q][d] = stats[a][d])
    BY <2>1, <2>2
  <2>4. VotesSumCountsVotes'
    BY <2>3 DEF CountedOnce, VotesSumCountsVotes
  <2> QED
    BY <2>2, <2>4 DEF CountedOnce
<1>6. CASE CloseDB(a)
  BY <1>6, OnceKept DEF CloseDB, CountedOnce, BeforeCounting
<1> QED
  BY <1>1, <1>2, <1>3, <1>4, <1>5, <1>6 DEF Step

LEMMA NextOnce ==
    ASSUME MaxLogs <= 1, TypeOK, CountedOnce, [Next]_vars
    PROVE  CountedOnce'
<1> USE DEF TypeOK, AggTypeOK
<1>1. CASE StoreStep \/ UNCHANGED vars
  BY <1>1, OnceKept DEF StoreStep, vars, countVars, aggVars, CountedOnce
<1>2. ASSUME NEW a \in Agg, BeginCycle(a)
      PROVE  CountedOnce'
  BY <1>2, StepOnce DEF BeginCycle, Step
<1>3. ASSUME NEW a \in Agg, NEW h \in Mongo, Read(a, h)
      PROVE  CountedOnce'
  <2>1. ReadInstance(a, h, votes[h])
    BY <1>3 DEF Read
  <2>2. Found(h, votes[h]) \subseteq Readable
    BY StoreAssumption DEF Found, Readable
  <2>3. \A b \in Agg : mapAllData'[b] \subseteq Readable
    BY <2>1, <2>2 DEF ReadInstance, CountedOnce
  <2> QED
    BY <2>1, <2>3, OnceKept DEF ReadInstance
<1>4. ASSUME NEW a \in Agg, Step(a)
      PROVE  CountedOnce'
  BY <1>4, StepOnce
<1>5. CASE MongoOutage \/ PingOutage
  BY <1>5, OnceKept DEF MongoOutage, PingOutage, aggVars, CountedOnce
<1>6. ASSUME NEW p \in Pg, PostgresDown(p) \/ PostgresUp(p)
      PROVE  CountedOnce'
  BY <1>6, OnceKept DEF PostgresDown, PostgresUp, aggVars, CountedOnce
<1>7. ASSUME NEW a \in Agg, Crash(a)
      PROVE  CountedOnce'
  <2>1. /\ mapAllData' = [mapAllData EXCEPT ![a] = {}]
        /\ logs' = [logs EXCEPT ![a] = 0]
        /\ stats' = [stats EXCEPT ![a] = NoStatistics]
        /\ pc' = [pc EXCEPT ![a] = "exited"]
        /\ UNCHANGED res
    BY <1>7 DEF Crash, Goto, machineVars
  <2>2. /\ mapAllData'[a] = {} /\ logs'[a] = 0
        /\ stats'[a] = NoStatistics /\ pc'[a] = "exited"
    BY <2>1
  <2>3. \A b \in Agg \ {a} : /\ mapAllData'[b] = mapAllData[b] /\ logs'[b] = logs[b]
                             /\ stats'[b] = stats[b] /\ pc'[b] = pc[b]
    BY <2>1
  <2> QED
    BY <2>1, <2>2, <2>3, OnceKept DEF CountedOnce
<1>8. ASSUME NEW a \in Agg, Restart(a)
      PROVE  CountedOnce'
  BY <1>8, OnceKept DEF Restart, Goto, machineVars, CountedOnce, BeforeCounting
<1> QED
  BY <1>1, <1>2, <1>3, <1>4, <1>5, <1>6, <1>7, <1>8
  DEF Next, AggregatorStep, Environment

(* NoneCountedTwice: a process that makes one cycle, however often it      *)
(* crashes in it and starts again, never shows more votes than there are.  *)
THEOREM NoneCountedTwice ==
    ASSUME MaxLogs <= 1
    PROVE  Spec => []VotesSumCountsVotes
<1>1. TypeOK /\ CountedOnce /\ [Next]_vars => CountedOnce'
  BY NextOnce
<1>2. CountedOnce => VotesSumCountsVotes
  BY DEF CountedOnce
<1> QED
  BY <1>1, <1>2, InitOnce, TypeCorrect, PTL DEF Spec

==============================================================================
