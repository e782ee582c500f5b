------------------------------- MODULE DbAgent -------------------------------
(***************************************************************************)
(* rso-server on every database host: TcpServer starts one DbAgentActor    *)
(* per accepted connection, the DbAgentActor obeys the commands it reads   *)
(* and works on the collection `votes` of the mongod beside it.            *)
(*                                                                         *)
(* insertMany and deleteMany are asynchronous: the actor goes on reading   *)
(* commands while they run.  insertMany is ordered, so a run that is cut   *)
(* short leaves a prefix of the documents.                                 *)
(***************************************************************************)
EXTENDS Messages2PC

CONSTANT NDocs    \* vote documents in the body of one POST

ASSUME NDocsAssumption == NDocs \in Nat \ {0}

VARIABLES
    agent,      \* agent[t][h]: the DbAgentActor of the connection
    toSave,     \* toSave[t][h]: documentsToSave and txId are defined
    ins,        \* ins[t][h]: the insertMany started by COMMIT
    inserted,   \* inserted[t][h]: documents it has inserted so far
    del,        \* del[t][h]: the deleteMany started by ROLLBACK
    votes       \* votes[h]: the collection, documents are <<txId, index>>

agentVars == <<agent, toSave, ins, inserted, del, votes>>

AgentStates == {"absent", "alive", "stopped"}
OpStates == {"idle", "running", "done", "failed"}

Doc(t) == {<<t, i>> : i \in 1..NDocs}

AgentTypeOK ==
    /\ agent \in [Tx -> [Host -> AgentStates]]
    /\ toSave \in [Tx -> [Host -> BOOLEAN]]
    /\ ins \in [Tx -> [Host -> OpStates]]
    /\ inserted \in [Tx -> [Host -> 0..NDocs]]
    /\ del \in [Tx -> [Host -> OpStates]]
    /\ votes \in [Host -> SUBSET (Tx \X (1..NDocs))]

AgentInit ==
    /\ agent = [t \in Tx |-> [h \in Host |-> "absent"]]
    /\ toSave = [t \in Tx |-> [h \in Host |-> FALSE]]
    /\ ins = [t \in Tx |-> [h \in Host |-> "idle"]]
    /\ inserted = [t \in Tx |-> [h \in Host |-> 0]]
    /\ del = [t \in Tx |-> [h \in Host |-> "idle"]]
    /\ votes = [h \in Host |-> {}]

(* context stop self *)
StopAgent(t, h) ==
    /\ agent' = [agent EXCEPT ![t][h] = "stopped"]
    /\ CloseByServer(t, h)

(* The next thing a live agent reads is `command`. *)
Reads(t, h, command) ==
    /\ agent[t][h] = "alive"
    /\ link[t][h] \in {"up", "closing"}
    /\ toServer[t][h] # <<>>
    /\ Head(toServer[t][h]) = command

Consume(t, h) == toServer' = [toServer EXCEPT ![t][h] = Tail(@)]

(* Mutant of ReadVote: the documents are saved at the vote already. *)
ReadVoteSaves(t, h) ==
    /\ Reads(t, h, VOTE)
    /\ Consume(t, h)
    /\ toSave' = [toSave EXCEPT ![t][h] = TRUE]
    /\ ins' = [ins EXCEPT ![t][h] = "running"]
    /\ Respond(t, h, VOTE_OK)
    /\ UNCHANGED <<link, agent, inserted, del, votes>>

(* Keep the documents in memory and vote yes, whatever state mongod is in. *)
ReadVote(t, h) ==
    /\ Reads(t, h, VOTE)
    /\ Consume(t, h)
    /\ toSave' = [toSave EXCEPT ![t][h] = TRUE]
    /\ Respond(t, h, VOTE_OK)
    /\ UNCHANGED <<link, agent, ins, inserted, del, votes>>

(* Start insertMany.  With no documents at hand documentsToSave.get throws *)
(* and the restarted actor has lost nothing it had.                        *)
ReadCommit(t, h) ==
    /\ Reads(t, h, COMMIT)
    /\ Consume(t, h)
    /\ ins' = [ins EXCEPT ![t][h] = IF toSave[t][h] THEN "running" ELSE @]
    /\ UNCHANGED <<link, toClient, agent, toSave, inserted, del, votes>>

(* Start deleteMany, be insertMany finished or not. *)
ReadRollback(t, h) ==
    /\ Reads(t, h, ROLLBACK)
    /\ Consume(t, h)
    /\ del' = [del EXCEPT ![t][h] = "running"]
    /\ UNCHANGED <<link, toClient, agent, toSave, ins, inserted, votes>>

(* Each Received is parsed as one JSON object.  A large VOTE that arrives  *)
(* in pieces parses in none of them; every piece is logged and dropped.    *)
DropSplitVote(t, h) ==
    /\ "chunking" \in Faults
    /\ Reads(t, h, VOTE)
    /\ Consume(t, h)
    /\ UNCHANGED <<link, toClient, agentVars>>

(* COMMIT and ROLLBACK that arrive in one read are dropped together. *)
DropJoinedCommands(t, h) ==
    /\ "chunking" \in Faults
    /\ Reads(t, h, COMMIT)
    /\ Len(toServer[t][h]) = 2
    /\ toServer' = [toServer EXCEPT ![t][h] = <<>>]
    /\ UNCHANGED <<link, toClient, agentVars>>

(* Mutant of InsertDocument: one document too many. *)
InsertOneMore(t, h) ==
    /\ ins[t][h] = "running"
    /\ inserted[t][h] <= NDocs
    /\ inserted' = [inserted EXCEPT ![t][h] = @ + 1]
    /\ votes' = [votes EXCEPT ![h] = @ \cup {<<t, inserted[t][h] + 1>>}]
    /\ UNCHANGED <<linkVars, agent, toSave, ins, del>>

(* Mongod inserts the next document of a running insertMany. *)
InsertDocument(t, h) ==
    /\ ins[t][h] = "running"
    /\ inserted[t][h] < NDocs
    /\ inserted' = [inserted EXCEPT ![t][h] = @ + 1]
    /\ votes' = [votes EXCEPT ![h] = @ \cup {<<t, inserted[t][h] + 1>>}]
    /\ UNCHANGED <<linkVars, agent, toSave, ins, del>>

(* Mutant of InsertDone: the ACK does not wait for insertMany. *)
InsertDoneEarly(t, h) ==
    /\ ins[t][h] = "running"
    /\ ins' = [ins EXCEPT ![t][h] = "done"]
    /\ Respond(t, h, ACK)
    /\ StopAgent(t, h)
    /\ UNCHANGED <<toSave, inserted, del, votes>>

(* Mutant of InsertDone: the ACK is forgotten. *)
InsertDoneSilent(t, h) ==
    /\ ins[t][h] = "running"
    /\ inserted[t][h] = NDocs
    /\ ins' = [ins EXCEPT ![t][h] = "done"]
    /\ StopAgent(t, h)
    /\ UNCHANGED <<toClient, toSave, inserted, del, votes>>

(* dbsave() onComplete Success *)
InsertDone(t, h) ==
    /\ ins[t][h] = "running"
    /\ inserted[t][h] = NDocs
    /\ ins' = [ins EXCEPT ![t][h] = "done"]
    /\ Respond(t, h, ACK)
    /\ StopAgent(t, h)
    /\ UNCHANGED <<toSave, inserted, del, votes>>

(* Mutant of InsertFailed: the error is only logged. *)
InsertFailedLogged(t, h) ==
    /\ "mongo" \in Faults
    /\ ins[t][h] = "running"
    /\ ins' = [ins EXCEPT ![t][h] = "failed"]
    /\ UNCHANGED <<linkVars, agent, toSave, inserted, del, votes>>

(* dbsave() onComplete Failure: nothing is answered, what insertMany has   *)
(* inserted stays.                                                         *)
InsertFailed(t, h) ==
    /\ "mongo" \in Faults
    /\ ins[t][h] = "running"
    /\ ins' = [ins EXCEPT ![t][h] = "failed"]
    /\ StopAgent(t, h)
    /\ UNCHANGED <<toClient, toSave, inserted, del, votes>>

(* Mutant of DeleteDone: deleteMany with an empty filter. *)
DeleteEverything(t, h) ==
    /\ del[t][h] = "running"
    /\ del' = [del EXCEPT ![t][h] = "done"]
    /\ votes' = [votes EXCEPT ![h] = {}]
    /\ Respond(t, h, ACK)
    /\ StopAgent(t, h)
    /\ UNCHANGED <<toSave, ins, inserted>>

(* rollback() onComplete Success: the documents with this txId are gone. *)
DeleteDone(t, h) ==
    /\ del[t][h] = "running"
    /\ del' = [del EXCEPT ![t][h] = "done"]
    /\ votes' = [votes EXCEPT ![h] = {d \in @ : d[1] # t}]
    /\ Respond(t, h, ACK)
    /\ StopAgent(t, h)
    /\ UNCHANGED <<toSave, ins, inserted>>

(* rollback() onComplete Failure *)
DeleteFailed(t, h) ==
    /\ "mongo" \in Faults
    /\ del[t][h] = "running"
    /\ del' = [del EXCEPT ![t][h] = "failed"]
    /\ StopAgent(t, h)
    /\ UNCHANGED <<toClient, toSave, ins, inserted, votes>>

(* Everything is read and the client has aborted the connection.  There is *)
(* no case for ErrorClosed: the agent logs an "unknown message" and lives  *)
(* on.                                                                     *)
ErrorClosed(t, h) ==
    /\ agent[t][h] = "alive"
    /\ link[t][h] = "closing"
    /\ toServer[t][h] = <<>>
    /\ CloseByServer(t, h)
    /\ UNCHANGED <<toClient, agentVars>>

(* Everything is read and the client has closed in order.  Only the        *)
(* operating system does that, for a process that has died.                *)
PeerClosed(t, h) ==
    /\ agent[t][h] = "alive"
    /\ link[t][h] = "closing"
    /\ toServer[t][h] = <<>>
    /\ StopAgent(t, h)
    /\ UNCHANGED <<toClient, toSave, ins, inserted, del, votes>>

(* The connection breaks, and what was under way is lost.  The agent lives *)
(* on, and the CommitActor has no case for ErrorClosed either.             *)
Reset(t, h) ==
    /\ "reset" \in Faults
    /\ link[t][h] \in {"up", "closing"}
    /\ link' = [link EXCEPT ![t][h] = "down"]
    /\ toServer' = [toServer EXCEPT ![t][h] = <<>>]
    /\ toClient' = [toClient EXCEPT ![t][h] = <<>>]
    /\ UNCHANGED agentVars

(* The container dies: `mongod & java -jar 2pc-server.jar`.  Agents and    *)
(* connections are gone; an operation mongod has begun may still finish    *)
(* or be cut short.  A new container accepts connections with the same     *)
(* data.                                                                   *)
ServerCrash(h) ==
    /\ "serverCrash" \in Faults
    /\ \E t \in Tx : agent[t][h] = "alive"
    /\ agent' = [t \in Tx |-> [agent[t] EXCEPT ![h] =
                    IF @ = "alive" THEN "stopped" ELSE @]]
    /\ link' = [t \in Tx |-> [link[t] EXCEPT ![h] =
                    IF @ = "none" THEN "none" ELSE "down"]]
    /\ toServer' = [t \in Tx |-> [toServer[t] EXCEPT ![h] = <<>>]]
    /\ \E mongodToo \in BOOLEAN :
        LET Cut(op) == [t \in Tx |-> [op[t] EXCEPT ![h] =
                           IF mongodToo /\ @ = "running" THEN "failed" ELSE @]]
        IN  /\ ins' = Cut(ins)
            /\ del' = Cut(del)
    /\ UNCHANGED <<toClient, toSave, inserted, votes>>

AgentStep(t, h) ==
    \/ ReadVote(t, h)
    \/ ReadCommit(t, h)
    \/ ReadRollback(t, h)
    \/ InsertDocument(t, h)
    \/ InsertDone(t, h)
    \/ DeleteDone(t, h)
    \/ ErrorClosed(t, h)

AgentFault(t, h) ==
    \/ DropSplitVote(t, h)
    \/ DropJoinedCommands(t, h)
    \/ InsertFailed(t, h)
    \/ DeleteFailed(t, h)
    \/ Reset(t, h)

==============================================================================
