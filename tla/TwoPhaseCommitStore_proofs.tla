---------------------- MODULE TwoPhaseCommitStore_proofs ----------------------
(***************************************************************************)
(* What IndInv is for: the safety properties of TwoPhaseCommit, and that   *)
(* TwoPhaseCommit implements RedundantStore.                               *)
(***************************************************************************)
EXTENDS TwoPhaseCommitInv_proofs

USE DEF Commands, Answers, LinkStates, AgentStates, OpStates, ActorStates,
        Replies, HttpStates, Phases, Active, Results,
        VOTE, VOTE_OK, ACK, COMMIT, ROLLBACK

(***************************************************************************)
(* Where documents can be.                                                 *)
(***************************************************************************)
LEMMA StoredMeansInserted ==
    ASSUME IndInv, NEW t \in Tx, NEW h \in Host, Stored(t, h) # {}
    PROVE  /\ h \in committing[t] /\ Cardinality(committing[t]) = MinDbs
           /\ phase[t] \in {"committing", "rollingBack", "stopped", "crashed"}
<1>1. PICK i \in 1..NDocs : <<t, i>> \in votes[h]
  BY DEF Stored, Doc
<1>2. i <= inserted[t][h]
  BY <1>1, Parts DEF StorageInv
<1>3. ins[t][h] # "idle"
  BY <1>2, Parts DEF StorageInv
<1>. QED
  BY <1>3, Parts DEF CommitInv, CommitSent

LEMMA OkIsComplete ==
    ASSUME IndInv, NEW t \in Tx, result[t] = "Ok", NEW h \in committing[t]
    PROVE  Doc(t) \subseteq votes[h]
<1>1. h \in Host
  BY DEF IndInv, TypeOK, CoordTypeOK
<1>2. ins[t][h] = "done"
  BY <1>1, Parts DEF AckInv
<1>3. inserted[t][h] = NDocs
  BY <1>1, <1>2, Parts DEF StorageInv
<1>4. del[t][h] = "idle"
  BY <1>1, Parts DEF RollbackInv, RollbackSent
<1>. QED
  BY <1>1, <1>3, <1>4, Parts, NDocsAssumption DEF StorageInv, Doc

LEMMA IndImpliesReplicated == IndInv => OkMeansReplicated
<1> SUFFICES ASSUME IndInv, NEW t \in Tx, http[t] = "ok"
             PROVE  /\ Cardinality(HostsWithAllDocs(t)) = MinDbs
                    /\ HostsWithDocs(t) = HostsWithAllDocs(t)
  BY DEF OkMeansReplicated
<1>1. result[t] = "Ok" /\ Cardinality(committing[t]) = MinDbs
  BY CoordParts DEF ResultInv, RoundInv
<1>2. committing[t] \subseteq Host
  BY DEF IndInv, TypeOK, CoordTypeOK
<1>3. committing[t] \subseteq HostsWithAllDocs(t)
  BY <1>1, <1>2, OkIsComplete DEF HostsWithAllDocs
<1>4. <<t, 1>> \in Doc(t)
  BY NDocsAssumption DEF Doc
<1>5. HostsWithAllDocs(t) \subseteq HostsWithDocs(t)
  BY <1>4 DEF HostsWithAllDocs, HostsWithDocs, Stored
<1>6. HostsWithDocs(t) \subseteq committing[t]
  BY StoredMeansInserted DEF HostsWithDocs
<1>7. HostsWithDocs(t) = committing[t] /\ HostsWithAllDocs(t) = committing[t]
  BY <1>3, <1>5, <1>6
<1>. QED
  BY <1>1, <1>7

(* Replication: in every environment, a POST answered "ok" is complete on  *)
(* exactly REDUNDANCY hosts, from then on for ever.                        *)
THEOREM Replication == Spec => []OkMeansReplicated
  BY Invariance, IndImpliesReplicated, PTL

LEMMA IndImpliesChosen == IndInv => StoredOnlyWhereChosen
<1> SUFFICES ASSUME IndInv, NEW t \in Tx, HostsWithDocs(t) # {}
             PROVE  /\ HostsWithDocs(t) \subseteq committing[t]
                    /\ Cardinality(committing[t]) = MinDbs
  BY DEF StoredOnlyWhereChosen
<1>1. \A h \in HostsWithDocs(t) : h \in Host /\ Stored(t, h) # {}
  BY DEF HostsWithDocs
<1>. QED
  BY <1>1, StoredMeansInserted

(* Placement: no host outside the chosen REDUNDANCY ever stores a document.*)
THEOREM Placement == Spec => []StoredOnlyWhereChosen
  BY Invariance, IndImpliesChosen, PTL

LEMMA IndImpliesDocuments == IndInv => CommitFindsDocuments
<1> SUFFICES ASSUME IndInv, NEW t \in Tx, NEW h \in Host, Reads(t, h, COMMIT)
             PROVE  toSave[t][h]
  BY DEF CommitFindsDocuments
<1>1. toServer[t][h] \in Seq(Commands) /\ toServer[t][h] # <<>>
  BY DEF Reads, IndInv, TypeOK, LinkTypeOK
<1>2. Waits(COMMIT, toServer[t][h])
  BY <1>1, WaitsHead DEF Reads
<1>. QED
  BY <1>2, Parts DEF CommitInv, CommitSent, VoteInv

(* NoneGet: documentsToSave.get never throws in dbsave.                    *)
THEOREM NoneGet == Spec => []CommitFindsDocuments
  BY Invariance, IndImpliesDocuments, PTL

(***************************************************************************)
(* Rollback.                                                               *)
(***************************************************************************)
LEMMA VotesStep ==
    ASSUME IndInv, [Next]_vars
    PROVE  \/ votes' = votes
           \/ \E t \in Tx, h \in Host : InsertDocument(t, h) \/ DeleteDone(t, h)
<1>1. ASSUME NEW t \in Tx, NEW h \in Host, AgentStep(t, h) \/ PeerClosed(t, h)
      PROVE  votes' = votes \/ InsertDocument(t, h) \/ DeleteDone(t, h)
  BY <1>1 DEF AgentStep, ReadVote, ReadCommit, ReadRollback, InsertDone, ErrorClosed,
              PeerClosed, agentVars
<1>2. ASSUME NEW t \in Tx, NEW h \in Host, AgentFault(t, h) PROVE votes' = votes
  BY <1>2 DEF AgentFault, DropSplitVote, DropJoinedCommands, InsertFailed,
              DeleteFailed, Reset, agentVars
<1>3. ASSUME NEW h \in Host, ServerCrash(h) PROVE votes' = votes
  BY <1>3 DEF ServerCrash
<1>. QED
  BY <1>1, <1>2, <1>3
     DEF Next, Fault, AllDone, vars, agentVars, CoordStep, Servlet, Connect,
         Timeout, ActorStep, ServerStep

LEMMA DeleteDoneOnlyOwn ==
    ASSUME IndInv, NEW t \in Tx, NEW h \in Host, DeleteDone(t, h),
           NEW u \in Tx, NEW g \in Host
    PROVE  \/ Stored(u, g) \subseteq Stored(u, g)'
           \/ /\ Stored(u, g)' = {}
              /\ \/ phase[u] \in {"rollingBack", "crashed"}
                 \/ result[u] = "Error"
<1>1. TypeOK
  BY DEF IndInv
<1>2. /\ g = h => votes'[g] = {d \in votes[g] : d[1] # t}
      /\ g # h => votes'[g] = votes[g]
  BY <1>1 DEF DeleteDone, TypeOK, AgentTypeOK
<1>3. CASE g = h /\ u = t
  <2>1. Stored(u, g)' = {}
    BY <1>2, <1>3 DEF Stored, Doc
  <2>2. phase[t] \in {"rollingBack", "stopped", "crashed"} /\ result[t] # "Ok"
    BY Parts DEF DeleteDone, RollbackInv, RollbackSent
  <2>3. phase[t] = "stopped" => result[t] = "Error"
    BY <1>1, <2>2, CoordParts DEF ResultInv, TypeOK, CoordTypeOK
  <2>. QED
    BY <1>3, <2>1, <2>2, <2>3
<1>4. CASE ~(g = h /\ u = t)
  BY <1>2, <1>4 DEF Stored, Doc
<1>. QED
  BY <1>3, <1>4

(* OnlyOwnRollback: no deleteMany takes the votes of another transaction,  *)
(* nor those of a transaction whose commit has not failed.                 *)
THEOREM OnlyOwnRollback == Spec => RollbackOnlyRemovesOwn
<1> DEFINE Step ==
      \A t \in Tx, h \in Host :
          \/ Stored(t, h) \subseteq Stored(t, h)'
          \/ /\ Stored(t, h)' = {}
             /\ \/ phase[t] \in {"rollingBack", "crashed"}
                \/ result[t] = "Error"
<1>1. IndInv /\ [Next]_vars => Step
  <2> SUFFICES ASSUME IndInv, [Next]_vars PROVE Step
    OBVIOUS
  <2>1. CASE votes' = votes
    BY <2>1 DEF Stored
  <2>2. ASSUME NEW t \in Tx, NEW h \in Host, InsertDocument(t, h) PROVE Step
    BY <2>2 DEF InsertDocument, Stored, IndInv, TypeOK, AgentTypeOK
  <2>3. ASSUME NEW t \in Tx, NEW h \in Host, DeleteDone(t, h) PROVE Step
    BY <2>3, DeleteDoneOnlyOwn
  <2>. QED
    BY <2>1, <2>2, <2>3, VotesStep
<1>. QED
  BY <1>1, Invariance, PTL DEF Spec, RollbackOnlyRemovesOwn

(***************************************************************************)
(* Refinement.  Most steps are stutters of the abstract store: they leave  *)
(* what it sees alone.                                                     *)
(***************************************************************************)
(* The Cardinality of the abstract module is the one used here. *)
LEMMA SameCardinality == \A S : Store!Cardinality(S) = Cardinality(S)
  BY DEF Store!Cardinality, Cardinality

LEMMA SameIsStutter ==
    ASSUME \A t \in Tx : Told(t)' = Told(t), UNCHANGED <<result, committing, votes>>
    PROVE  UNCHANGED Store!storeVars
<1>1. \A t \in Tx : Place(t)' = Place(t)
  BY DEF Place
<1>. QED
  BY <1>1 DEF Store!storeVars

LEMMA InitStore == Init => Store!StoreInit
<1> SUFFICES ASSUME Init PROVE Store!StoreInit
  OBVIOUS
<1>1. \A t \in Tx : Told(t) = "none" /\ Place(t) = {} /\ result[t] # "Ok"
  BY DEF Init, CoordInit, Told, Place
<1>2. votes = [h \in Host |-> {}]
  BY DEF Init, AgentInit
<1>. QED
  BY <1>1, <1>2 DEF Store!StoreInit

(* The decision is taken when the last commit answer is in. *)
LEMMA CommitOkAccepts ==
    ASSUME IndInv, IndInv', NEW t \in Tx, CommitOk(t), UNCHANGED agentVars
    PROVE  Store!Accept(t)
<1>0. TypeOK
  BY DEF IndInv
<1>1. /\ result' = [result EXCEPT ![t] = "Ok"]
      /\ UNCHANGED <<http, committing, votes>>
  BY DEF CommitOk, Finish, agentVars
<1>2. phase[t] = "committing" /\ result[t] = "none" /\ http[t] \notin {"ok", "error"}
  BY CoordParts DEF CommitOk, ResultInv
<1>3. Cardinality(committing[t]) = MinDbs
  BY <1>2, CoordParts DEF RoundInv
<1>4. Place(t) = committing[t]
  BY <1>3 DEF Place
<1>5. result'[t] = "Ok"
  BY <1>0, <1>1 DEF TypeOK, CoordTypeOK
<1>6. \A h \in committing[t] : Doc(t) \subseteq votes[h]
  <2>1. \A h \in committing'[t] : Doc(t) \subseteq votes'[h]
    <3>1. ASSUME NEW h \in committing'[t] PROVE Doc(t) \subseteq votes'[h]
      <4>1. h \in Host
        BY <1>0, <1>1, <3>1 DEF TypeOK, CoordTypeOK
      <4>2. AckInv(t, h)' /\ StorageInv(t, h)' /\ RollbackInv(t, h)'
        BY <4>1 DEF IndInv, HostInv, MessageInv
      <4>3. ins'[t][h] = "done"
        BY <1>5, <3>1, <4>2 DEF AckInv
      <4>4. inserted'[t][h] = NDocs /\ del'[t][h] = "idle"
        BY <1>5, <4>2, <4>3 DEF StorageInv, RollbackInv, RollbackSent
      <4>. QED
        BY <4>2, <4>4, NDocsAssumption DEF StorageInv, Doc
    <3>. QED
      BY <3>1
  <2>. QED
    BY <1>1, <2>1
<1>7. \A u \in Tx : Place(u)' = Place(u) /\ Told(u)' = Told(u)
  BY <1>1 DEF Place, Told
<1>8. Told(t) # "error"
  BY <1>2 DEF Told
<1>9. Store!Documents(t) = Doc(t)
  BY DEF Store!Documents, Doc
<1>10. [u \in Tx |-> result'[u] = "Ok"] =
         [[u \in Tx |-> result[u] = "Ok"] EXCEPT ![t] = TRUE]
  BY <1>0, <1>1 DEF TypeOK, CoordTypeOK
<1>11. /\ [u \in Tx |-> Told(u)][t] # "error"
       /\ [u \in Tx |-> Place(u)][t] = committing[t]
       /\ ~[u \in Tx |-> result[u] = "Ok"][t]
  BY <1>2, <1>4, <1>8
<1>12. /\ [u \in Tx |-> Told(u)'] = [u \in Tx |-> Told(u)]
       /\ [u \in Tx |-> Place(u)'] = [u \in Tx |-> Place(u)]
  BY <1>7
<1>13. \A h \in [u \in Tx |-> Place(u)][t] : Store!Documents(t) \subseteq votes[h]
  BY <1>6, <1>9, <1>11
<1>14. Cardinality([u \in Tx |-> Place(u)][t]) = MinDbs
  BY <1>3, <1>11
<1>15. votes' = votes
  BY <1>1
<1>. QED
  BY <1>10, <1>11, <1>12, <1>13, <1>14, <1>15, SameCardinality DEF Store!Accept

(* The hosts are settled when the votes suffice. *)
LEMMA CollectVotesChooses ==
    ASSUME IndInv, IndInv', NEW t \in Tx, CollectVotes(t), UNCHANGED agentVars
    PROVE  Store!Choose(t) \/ UNCHANGED Store!storeVars
<1>0. TypeOK /\ TypeOK'
  BY DEF IndInv
<1>1. UNCHANGED <<http, result, votes>>
  BY DEF CollectVotes, agentVars
<1>2. /\ committing'[t] \in SUBSET Host
      /\ \A u \in Tx : u # t => committing'[u] = committing[u]
      /\ \A h \in committing'[t] : h \in committing[t] \/ h \in asked[t]
  BY <1>0 DEF CollectVotes, TypeOK, CoordTypeOK
<1>3. result[t] = "none"
  BY CoordParts DEF CollectVotes, ResultInv
<1>4. CASE Cardinality(committing[t]) = MinDbs
  <2>1. Cardinality(asked[t]) = 0
    <3>1. Cardinality(asked[t]) \in Nat
      BY <1>0, HostSets DEF TypeOK, CoordTypeOK
    <3>2. Cardinality(committing[t]) + Cardinality(asked[t]) = MinDbs
      BY CoordParts DEF RoundInv, CollectVotes
    <3>. QED
      BY <1>4, <3>1, <3>2, MinDbsAssumption
  <2>2. asked[t] = {}
    BY <1>0, <2>1, HostSets, FS_EmptySet DEF TypeOK, CoordTypeOK
  <2>3. committing' = committing
    BY <1>0, <2>2 DEF CollectVotes, TypeOK, CoordTypeOK
  <2>. QED
    BY <1>1, <2>3, SameIsStutter DEF Told
<1>5. CASE /\ Cardinality(committing[t]) # MinDbs
           /\ Cardinality(committing'[t]) # MinDbs
  <2>1. \A u \in Tx : Place(u)' = Place(u) /\ Told(u)' = Told(u)
    BY <1>1, <1>2, <1>5 DEF Place, Told
  <2>. QED
    BY <1>1, <2>1 DEF Store!storeVars
<1>6. CASE /\ Cardinality(committing[t]) # MinDbs
           /\ Cardinality(committing'[t]) = MinDbs
  <2>1. /\ Place(t) = {} /\ Place(t)' = committing'[t]
        /\ \A u \in Tx : u # t => Place(u)' = Place(u)
    BY <1>2, <1>6 DEF Place
  <2>2. [u \in Tx |-> Place(u)'] =
          [[u \in Tx |-> Place(u)] EXCEPT ![t] = committing'[t]]
    BY <2>1
  <2>3. [u \in Tx |-> Place(u)][t] = {} /\ ~[u \in Tx |-> result[u] = "Ok"][t]
    BY <1>3, <2>1
  <2>4. \A u \in Tx : Told(u)' = Told(u)
    BY <1>1 DEF Told
  <2>5. \E S \in SUBSET Host :
           /\ Cardinality(S) = MinDbs
           /\ [u \in Tx |-> Place(u)'] = [[u \in Tx |-> Place(u)] EXCEPT ![t] = S]
    BY <1>2, <1>6, <2>2
  <2>6. /\ [u \in Tx |-> Told(u)'] = [u \in Tx |-> Told(u)]
        /\ [u \in Tx |-> result'[u] = "Ok"] = [u \in Tx |-> result[u] = "Ok"]
        /\ votes' = votes
    BY <1>1, <2>4
  <2>. QED
    BY <2>3, <2>5, <2>6, SameCardinality DEF Store!Choose
<1>. QED
  BY <1>4, <1>5, <1>6

(* The sender is told the result, or gets no answer. *)
LEMMA HttpTells ==
    ASSUME IndInv, NEW t \in Tx, UNCHANGED <<result, committing, votes>>,
           http[t] = "waiting", NEW a \in {"ok", "error", "failed"},
           http' = [http EXCEPT ![t] = a],
           a = "ok" => result[t] = "Ok", a = "error" => result[t] # "Ok"
    PROVE  Store!Tell(t)
<1>0. TypeOK
  BY DEF IndInv
<1>1. /\ Told(t) = "none" /\ Told(t)' = a
      /\ \A u \in Tx : u # t => Told(u)' = Told(u)
  BY <1>0 DEF Told, TypeOK, CoordTypeOK
<1>2. [u \in Tx |-> Told(u)'] = [[u \in Tx |-> Told(u)] EXCEPT ![t] = a]
  BY <1>1
<1>3. /\ [u \in Tx |-> Told(u)][t] = "none"
      /\ [u \in Tx |-> result[u] = "Ok"][t] = (result[t] = "Ok")
  BY <1>1
<1>4. [u \in Tx |-> Place(u)'] = [u \in Tx |-> Place(u)]
  BY DEF Place
<1>. QED
  BY <1>2, <1>3, <1>4 DEF Store!Tell

LEMMA InsertAdds ==
    ASSUME IndInv, NEW t \in Tx, NEW h \in Host, InsertDocument(t, h),
           UNCHANGED coordVars
    PROVE  Store!Add(t, h)
<1>0. TypeOK
  BY DEF IndInv
<1>1. /\ h \in committing[t] /\ Cardinality(committing[t]) = MinDbs
  BY Parts DEF InsertDocument, CommitInv, CommitSent
<1>2. result[t] # "Ok"
  BY <1>1, Parts DEF InsertDocument, AckInv
<1>3. inserted[t][h] + 1 \in 1..NDocs
  BY <1>0, NDocsAssumption DEF InsertDocument, TypeOK, AgentTypeOK
<1>4. <<t, inserted[t][h] + 1>> \in Store!Documents(t)
  BY <1>3 DEF Store!Documents
<1>5. h \in [u \in Tx |-> Place(u)][t] /\ ~[u \in Tx |-> result[u] = "Ok"][t]
  BY <1>1, <1>2 DEF Place
<1>6. UNCHANGED <<http, result, committing>>
  BY DEF coordVars
<1>7. \A u \in Tx : Place(u)' = Place(u) /\ Told(u)' = Told(u)
  BY <1>6 DEF Place, Told
<1>8. votes' = [votes EXCEPT ![h] = @ \cup {<<t, inserted[t][h] + 1>>}]
  BY DEF InsertDocument
<1>. QED
  BY <1>4, <1>5, <1>6, <1>7, <1>8 DEF Store!Add

LEMMA DeleteTakesBack ==
    ASSUME IndInv, NEW t \in Tx, NEW h \in Host, DeleteDone(t, h),
           UNCHANGED coordVars
    PROVE  Store!TakeBack(t, h)
<1>0. TypeOK
  BY DEF IndInv
<1>1. result[t] # "Ok"
  BY Parts DEF DeleteDone, RollbackInv, RollbackSent
<1>2. {d \in votes[h] : d[1] # t} = votes[h] \ Store!Documents(t)
  <2>1. votes[h] \subseteq Tx \X (1..NDocs)
    BY <1>0 DEF TypeOK, AgentTypeOK
  <2>. QED
    BY <2>1 DEF Store!Documents
<1>3. votes' = [votes EXCEPT ![h] = @ \ Store!Documents(t)]
  BY <1>0, <1>2 DEF DeleteDone, TypeOK, AgentTypeOK
<1>4. ~[u \in Tx |-> result[u] = "Ok"][t]
  BY <1>1
<1>5. UNCHANGED <<http, result, committing>>
  BY DEF coordVars
<1>6. \A u \in Tx : Place(u)' = Place(u) /\ Told(u)' = Told(u)
  BY <1>5 DEF Place, Told
<1>. QED
  BY <1>3, <1>4, <1>5, <1>6 DEF Store!TakeBack

LEMMA CoordStepStore ==
    ASSUME IndInv, IndInv', NEW t \in Tx, CoordStep(t)
    PROVE  [Store!StoreNext]_Store!storeVars
<1>0. UNCHANGED agentVars
  BY DEF CoordStep
<1>1. CASE CollectVotes(t)
  BY <1>0, <1>1, CollectVotesChooses DEF Store!StoreNext
<1>2. CASE CommitOk(t)
  BY <1>0, <1>2, CommitOkAccepts DEF Store!StoreNext
<1>3. CASE SelectHosts(t) \/ StartCommit(t) \/ StartRollback(t)
  BY <1>0, <1>3, SameIsStutter
     DEF SelectHosts, StartCommit, StartRollback, Told, agentVars
<1>4. ASSUME \/ NotEnough(t) /\ phase[t] = "selecting"
             \/ RollbackDone(t) /\ phase[t] = "rollingBack"
      PROVE  [Store!StoreNext]_Store!storeVars
  <2>1. result' = [result EXCEPT ![t] = "Error"] /\ UNCHANGED <<http, committing, votes>>
    BY <1>0, <1>4 DEF NotEnough, RollbackDone, Finish, agentVars
  <2>2. result[t] = "none"
    BY <1>4, CoordParts DEF ResultInv
  <2>3. [u \in Tx |-> result'[u] = "Ok"] = [u \in Tx |-> result[u] = "Ok"]
    BY <2>1, <2>2 DEF IndInv, TypeOK, CoordTypeOK
  <2>4. \A u \in Tx : Told(u)' = Told(u) /\ Place(u)' = Place(u)
    BY <2>1 DEF Told, Place
  <2>. QED
    BY <2>1, <2>3, <2>4 DEF Store!storeVars
<1>. QED
  BY <1>1, <1>2, <1>3, <1>4 DEF CoordStep, NotEnough, RollbackDone

LEMMA HttpStepStore ==
    ASSUME IndInv, NEW t \in Tx, UNCHANGED agentVars,
           \/ Post(t) \/ RespondHttp(t) \/ HttpTimeout(t) \/ ClientCrash(t)
    PROVE  [Store!StoreNext]_Store!storeVars
<1>0. TypeOK
  BY DEF IndInv
<1>1. CASE Post(t)
  <2>1. http[t] = "idle"
    BY <1>1, CoordParts DEF Post, ResultInv
  <2>2. \A u \in Tx : Told(u)' = Told(u)
    BY <1>0, <1>1, <2>1 DEF Post, Told, TypeOK, CoordTypeOK
  <2>. QED
    BY <1>1, <2>2, SameIsStutter DEF Post, agentVars
<1>2. CASE RespondHttp(t)
  <2>1. Store!Tell(t)
    BY <1>2, HttpTells DEF RespondHttp, agentVars
  <2>. QED
    BY <2>1 DEF Store!StoreNext
<1>3. CASE HttpTimeout(t)
  <2>1. Store!Tell(t)
    BY <1>3, HttpTells DEF HttpTimeout, agentVars
  <2>. QED
    BY <2>1 DEF Store!StoreNext
<1>4. CASE ClientCrash(t) /\ http[t] = "waiting"
  <2>1. Store!Tell(t)
    BY <1>4, HttpTells DEF ClientCrash, agentVars
  <2>. QED
    BY <2>1 DEF Store!StoreNext
<1>5. CASE ClientCrash(t) /\ http[t] # "waiting"
  <2>1. http' = http
    BY <1>0, <1>5 DEF ClientCrash, TypeOK, CoordTypeOK
  <2>. QED
    BY <1>5, <2>1, SameIsStutter DEF ClientCrash, Told, agentVars
<1>. QED
  BY <1>1, <1>2, <1>3, <1>4, <1>5

LEMMA NextStore ==
    IndInv /\ IndInv' /\ [Next]_vars => [Store!StoreNext]_Store!storeVars
<1> SUFFICES ASSUME IndInv, IndInv', [Next]_vars
             PROVE  [Store!StoreNext]_Store!storeVars
  OBVIOUS
<1> DEFINE Mapped == [Store!StoreNext]_Store!storeVars
<1>1. ASSUME UNCHANGED <<votes, coordVars>> PROVE Mapped
  BY <1>1, SameIsStutter DEF Told, coordVars
<1>2. ASSUME NEW t \in Tx, CoordStep(t) PROVE Mapped
  BY <1>2, CoordStepStore
<1>3. ASSUME NEW t \in Tx, Servlet(t) PROVE Mapped
  BY <1>3, HttpStepStore DEF Servlet
<1>4. ASSUME NEW t \in Tx, ClientCrash(t), UNCHANGED agentVars PROVE Mapped
  BY <1>4, HttpStepStore
<1>5. ASSUME NEW t \in Tx, NEW h \in Host, InsertDocument(t, h), UNCHANGED coordVars
      PROVE  Mapped
  BY <1>5, InsertAdds DEF Store!StoreNext
<1>6. ASSUME NEW t \in Tx, NEW h \in Host, DeleteDone(t, h), UNCHANGED coordVars
      PROVE  Mapped
  BY <1>6, DeleteTakesBack DEF Store!StoreNext
<1>7. ASSUME NEW t \in Tx, NEW h \in Host,
             Connect(t, h) \/ Timeout(t, h) \/ ActorStep(t, h)
      PROVE  Mapped
  BY <1>7, <1>1 DEF Connect, Timeout, ActorStep, agentVars
<1>8. ASSUME NEW t \in Tx, NEW h \in Host, ServerStep(t, h) PROVE Mapped
  <2>1. votes' = votes \/ InsertDocument(t, h) \/ DeleteDone(t, h)
    BY <1>8 DEF ServerStep, AgentStep, ReadVote, ReadCommit, ReadRollback,
                InsertDone, ErrorClosed, PeerClosed, agentVars
  <2>. QED
    BY <1>1, <1>5, <1>6, <1>8, <2>1 DEF ServerStep
<1>9. ASSUME NEW t \in Tx, NEW h \in Host, AgentFault(t, h), UNCHANGED coordVars
      PROVE  Mapped
  BY <1>1, <1>9 DEF AgentFault, DropSplitVote, DropJoinedCommands,
                    InsertFailed, DeleteFailed, Reset, agentVars
<1>10. ASSUME NEW h \in Host, ServerCrash(h), UNCHANGED coordVars PROVE Mapped
  BY <1>1, <1>10 DEF ServerCrash
<1>11. CASE Fault
  <2>1. ASSUME UNCHANGED <<agentVars, coordVars>> PROVE Mapped
    BY <1>1, <2>1 DEF agentVars
  <2>. QED
    BY <1>4, <1>9, <1>10, <1>11, <2>1 DEF Fault
<1>12. CASE UNCHANGED vars
  BY <1>1, <1>12 DEF vars, agentVars
<1>13. CASE Next
  <2>1. CASE \E t \in Tx : CoordStep(t) \/ Servlet(t)
    BY <2>1, <1>2, <1>3
  <2>2. CASE \E t \in Tx, h \in Host :
          Connect(t, h) \/ Timeout(t, h) \/ ActorStep(t, h) \/ ServerStep(t, h)
    BY <2>2, <1>7, <1>8
  <2>. QED
    BY <1>11, <1>12, <1>13, <2>1, <2>2 DEF Next, AllDone
<1>. QED
  BY <1>12, <1>13

(* Refinement: clients, hosts and connections, with every fault, implement *)
(* the abstract store.                                                     *)
THEOREM Refinement == Spec => ImplementsStore
  BY InitStore, NextStore, Invariance, PTL DEF Spec, ImplementsStore, Store!StoreSpec

==============================================================================
