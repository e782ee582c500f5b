---------------------------- MODULE TwoPhaseCommit ----------------------------
(***************************************************************************)
(* The voting store as a whole: rso-client (MainServlet,                   *)
(* TwoPhaseCommitActor, CommitActor) and rso-server (DbAgentActor, mongod) *)
(* joined by their TCP connections.                                        *)
(***************************************************************************)
EXTENDS DbAgent, TwoPhaseCommitActor

vars == <<linkVars, agentVars, actorVars, coordVars>>

Init == LinkInit /\ AgentInit /\ ActorInit /\ CoordInit

(* TypeOK: every variable of the client, the servers and the connections   *)
(* between them keeps to its set of values.                                *)
TypeOK == LinkTypeOK /\ AgentTypeOK /\ ActorTypeOK /\ CoordTypeOK

(* A connection comes up on both sides: the CommitActor is told, and       *)
(* TcpServer starts a DbAgentActor for it.                                 *)
Connect(t, h) ==
    /\ Connected(t, h)
    /\ agent' = [agent EXCEPT ![t][h] = "alive"]
    /\ UNCHANGED <<toSave, ins, inserted, del, votes, coordVars>>

(* Nothing that could still lead to an answer from h is under way. *)
NoAnswerComing(t, h) ==
    /\ actor[t][h] # "connecting"
    /\ mailbox[t][h] = <<>>
    /\ toClient[t][h] = <<>>
    /\ \/ link[t][h] # "up"
       \/ /\ toServer[t][h] = <<>>
          /\ ins[t][h] # "running"
          /\ del[t][h] # "running"

(* The two seconds of an ask pass.  In an environment that is not "slow"   *)
(* they are long enough for every answer that is coming.                   *)
Timeout(t, h) ==
    /\ "slow" \in Faults \/ NoAnswerComing(t, h)
    /\ AskTimeout(t, h)
    /\ UNCHANGED <<agentVars, coordVars>>

(***************************************************************************)
(* The processes.                                                          *)
(***************************************************************************)

(* The Future of the TwoPhaseCommitActor *)
CoordStep(t) ==
    /\ \/ SelectHosts(t)
       \/ NotEnough(t)
       \/ CollectVotes(t)
       \/ StartCommit(t)
       \/ CommitOk(t)
       \/ StartRollback(t)
       \/ RollbackDone(t)
    /\ UNCHANGED agentVars

(* MainServlet *)
Servlet(t) ==
    /\ Post(t) \/ RespondHttp(t) \/ HttpTimeout(t)
    /\ UNCHANGED agentVars

(* One CommitActor handling a message *)
ActorStep(t, h) ==
    /\ Received(t, h) \/ HandleCommit(t, h) \/ HandleRollback(t, h)
    /\ UNCHANGED <<agentVars, coordVars>>

(* One database host: agent and mongod *)
ServerStep(t, h) ==
    /\ \/ AgentStep(t, h)
       \/ phase[t] = "crashed" /\ PeerClosed(t, h)
    /\ UNCHANGED <<actorVars, coordVars>>

Fault ==
    \/ \E t \in Tx, h \in Host :
        \/ AgentFault(t, h) /\ UNCHANGED <<actorVars, coordVars>>
        \/ ConnectFailed(t, h) /\ UNCHANGED <<agentVars, coordVars>>
    \/ \E h \in Host : ServerCrash(h) /\ UNCHANGED <<actorVars, coordVars>>
    \/ \E t \in Tx : ClientCrash(t) /\ UNCHANGED agentVars

(* Every POST is dealt with: the system may rest. *)
AllDone ==
    /\ \A t \in Tx : phase[t] \in {"stopped", "crashed"} /\ http[t] # "waiting"
    /\ UNCHANGED vars

Next ==
    \/ \E t \in Tx : CoordStep(t) \/ Servlet(t)
    \/ \E t \in Tx, h \in Host :
        Connect(t, h) \/ Timeout(t, h) \/ ActorStep(t, h) \/ ServerStep(t, h)
    \/ Fault
    \/ AllDone

Spec == Init /\ [][Next]_vars

(***************************************************************************)
(* Fairness.  The Akka dispatchers run every actor with a message and the  *)
(* scheduler fires every ask timeout, so the client's side is weakly fair. *)
(* Nothing makes a voter POST.  A database host that is up runs its agents *)
(* and mongod; only FairSpec relies on that.                               *)
(***************************************************************************)
ServletAnswers(t) == RespondHttp(t) /\ UNCHANGED agentVars

ClientFairness ==
    /\ \A t \in Tx : WF_vars(CoordStep(t)) /\ WF_vars(ServletAnswers(t))
    /\ \A t \in Tx, h \in Host :
        WF_vars(ActorStep(t, h)) /\ WF_vars(Timeout(t, h))

ServerFairness ==
    \A t \in Tx, h \in Host :
        WF_vars(Connect(t, h)) /\ WF_vars(ServerStep(t, h))

ClientFairSpec == Spec /\ ClientFairness
FairSpec == Spec /\ ClientFairness /\ ServerFairness

(***************************************************************************)
(* Properties.                                                             *)
(***************************************************************************)

Stored(t, h) == votes[h] \cap Doc(t)
HostsWithDocs(t) == {h \in Host : Stored(t, h) # {}}
HostsWithAllDocs(t) == {h \in Host : Doc(t) \subseteq votes[h]}

(* OkMeansReplicated: once a POST has been answered "ok", its vote         *)
(* documents are complete on exactly REDUNDANCY hosts and no other host    *)
(* holds a part of them, whatever fails later (commitTransaction may only  *)
(* return when every chosen host has inserted, and no rollback may follow).*)
OkMeansReplicated ==
    \A t \in Tx : http[t] = "ok" =>
        /\ Cardinality(HostsWithAllDocs(t)) = MinDbs
        /\ HostsWithDocs(t) = HostsWithAllDocs(t)

(* StoredOnlyWhereChosen: a document is in a collection only if the        *)
(* coordinator counted that host's vote and decided to commit; a host that *)
(* voted too late, or in a round that came up short, never inserts.        *)
StoredOnlyWhereChosen ==
    \A t \in Tx : HostsWithDocs(t) # {} =>
        /\ HostsWithDocs(t) \subseteq committing[t]
        /\ Cardinality(committing[t]) = MinDbs

(* CommitFindsDocuments: an agent that reads COMMIT holds the documents of *)
(* its VOTE, so documentsToSave.get in dbsave never throws, also when      *)
(* votes were dropped, late or repeated in another round.                  *)
CommitFindsDocuments ==
    \A t \in Tx, h \in Host : Reads(t, h, COMMIT) => toSave[t][h]

(* InsertNeverStartsAfterRollback: once an agent has read ROLLBACK no      *)
(* insertMany of that transaction starts any more, although Commit and     *)
(* Rollback wait side by side in mailboxes and on the wire.                *)
InsertNeverStartsAfterRollback ==
    [][\A t \in Tx, h \in Host :
          ins[t][h] = "idle" /\ ins'[t][h] = "running" => del[t][h] = "idle"]_vars

(* RollbackOnlyRemovesOwn: documents leave a collection only by the        *)
(* rollback of their own transaction, all at once and after its commit has *)
(* failed; the deleteMany of one transaction never takes another's votes.  *)
RollbackOnlyRemovesOwn ==
    [][\A t \in Tx, h \in Host :
          \/ Stored(t, h) \subseteq Stored(t, h)'
          \/ /\ Stored(t, h)' = {}
             /\ \/ phase[t] \in {"rollingBack", "crashed"}
                \/ result[t] = "Error"]_vars

(* Nothing of t is under way on any host any more. *)
Settled(t) ==
    \A h \in Host :
        /\ agent[t][h] = "alive" => link[t][h] = "down"
        /\ ins[t][h] # "running" /\ del[t][h] # "running"

(* ErrorMeansNothingStored: when a POST answered "error" has settled, no   *)
(* host is left with a document of it ("commit error, rolling back").      *)
ErrorMeansNothingStored ==
    \A t \in Tx : http[t] = "error" /\ Settled(t) => HostsWithDocs(t) = {}

(* EveryTransactionEnds: whatever the hosts do, or never do, the           *)
(* coordinator of a POST comes to an end and releases its actors.          *)
EveryTransactionEnds ==
    \A t \in Tx : phase[t] # "idle" ~> phase[t] \in {"stopped", "crashed"}

Commanded(t, h) ==
    \E i \in 1..Len(toServer[t][h]) : toServer[t][h][i] \in {COMMIT, ROLLBACK}

(* An agent that nobody will talk to and that nothing will stop: it keeps  *)
(* the documents of its VOTE for as long as the server runs.               *)
LeftBehind(t, h) ==
    /\ agent[t][h] = "alive" /\ link[t][h] = "down"
    /\ ins[t][h] = "idle" /\ del[t][h] = "idle"

(* AgentsReleased: a DbAgentActor that has been sent COMMIT or ROLLBACK    *)
(* stops in the end, although the client aborts the connection behind      *)
(* them; those that have got neither are left behind for good, as the code *)
(* has no case for ErrorClosed, and no agent is left with work begun.      *)
AgentsReleased ==
    \A t \in Tx, h \in Host :
        /\ agent[t][h] = "alive" ~> agent[t][h] = "stopped" \/ LeftBehind(t, h)
        /\ agent[t][h] = "alive" /\ Commanded(t, h) ~> agent[t][h] = "stopped"

(* HealthyPostSucceeds: with REDUNDANCY hosts and nothing failing every    *)
(* POST is answered "ok".                                                  *)
HealthyPostSucceeds ==
    \A t \in Tx : http[t] = "waiting" ~> http[t] = "ok"

(***************************************************************************)
(* Refinement: the promise of RedundantStore.  The hosts are settled when  *)
(* the coordinator has REDUNDANCY votes, the decision is what its Future   *)
(* returns.                                                                *)
(***************************************************************************)
Place(t) == IF Cardinality(committing[t]) = MinDbs THEN committing[t] ELSE {}

Told(t) == IF http[t] \in {"idle", "waiting"} THEN "none" ELSE http[t]

Store == INSTANCE RedundantStore
    WITH Copies <- MinDbs,
         answer <- [t \in Tx |-> Told(t)],
         accepted <- [t \in Tx |-> result[t] = "Ok"],
         place <- [t \in Tx |-> Place(t)]

(* ImplementsStore: every behaviour of clients, hosts and connections is   *)
(* one of the abstract store: documents come only to hosts settled before, *)
(* an accepted transaction is complete there and nothing of it is ever     *)
(* taken back, and no accepted transaction is answered "error".            *)
ImplementsStore == Store!StoreSpec

==============================================================================
