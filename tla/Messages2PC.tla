----------------------------- MODULE Messages2PC -----------------------------
(***************************************************************************)
(* The commands of the two-phase commit protocol and the TCP connections   *)
(* they travel on: one connection per transaction and database host, from  *)
(* a CommitActor of rso-client to a DbAgentActor of rso-server.            *)
(*                                                                         *)
(* A connection is a FIFO stream in either direction.  The messages the    *)
(* far side has not read yet are a sequence.  A write to a connection that *)
(* is gone ends in Akka's dead letters.                                    *)
(***************************************************************************)
EXTENDS Naturals, Sequences, FiniteSets

CONSTANTS
    Tx,       \* transactions: one per POST, txId is a fresh UUID
    Host,     \* database hosts: the entries of MONGO_HOSTS
    Faults    \* what the environment may do, a subset of FaultKinds

(***************************************************************************)
(* connect      a connection attempt is refused                            *)
(* chunking     TCP hands one command over in two reads, or two in one     *)
(* reset        an established connection breaks (ErrorClosed)             *)
(* mongo        insertMany or deleteMany fails, perhaps half done          *)
(* serverCrash  the container of a database host dies                      *)
(* clientCrash  the rso-client process dies                                *)
(* slow         an ask times out while its answer is still under way       *)
(* http         the servlet's own ask times out                            *)
(***************************************************************************)
FaultKinds == {"connect", "chunking", "reset", "mongo",
               "serverCrash", "clientCrash", "slow", "http"}

ASSUME HostAssumption == IsFiniteSet(Host)
ASSUME FaultsAssumption == Faults \subseteq FaultKinds

VOTE == "vote"
VOTE_OK == "vote_ok"
ACK == "ack"
COMMIT == "commit"
ROLLBACK == "rollback"

Commands == {VOTE, COMMIT, ROLLBACK}     \* client to server
Answers == {VOTE_OK, ACK}                \* server to client

VARIABLES
    link,       \* link[t][h]: state of the connection
    toServer,   \* toServer[t][h]: commands written, not yet read
    toClient    \* toClient[t][h]: answers written, not yet read

linkVars == <<link, toServer, toClient>>

(***************************************************************************)
(* "closing": the client's end is gone, the server has still to read what  *)
(* was written before.  "down": nothing can be read or written.            *)
(***************************************************************************)
LinkStates == {"none", "up", "closing", "down"}

LinkTypeOK ==
    /\ link \in [Tx -> [Host -> LinkStates]]
    /\ toServer \in [Tx -> [Host -> Seq(Commands)]]
    /\ toClient \in [Tx -> [Host -> Seq(Answers)]]

LinkInit ==
    /\ link = [t \in Tx |-> [h \in Host |-> "none"]]
    /\ toServer = [t \in Tx |-> [h \in Host |-> <<>>]]
    /\ toClient = [t \in Tx |-> [h \in Host |-> <<>>]]

(* connection ! Write(command) in the client *)
WriteCommand(t, h, command) ==
    toServer' = IF link[t][h] = "up"
                THEN [toServer EXCEPT ![t][h] = Append(@, command)]
                ELSE toServer

(* replyTo ! Write(response) in the server *)
Respond(t, h, response) ==
    toClient' = IF link[t][h] = "up"
                THEN [toClient EXCEPT ![t][h] = Append(@, response)]
                ELSE toClient

(* Nobody sends Tcp.Close: a connection is aborted when its handler stops. *)
(* On the server's side what it wrote stays readable, what it has not read *)
(* is lost.                                                                *)
CloseByServer(t, h) ==
    /\ link' = [link EXCEPT ![t][h] = "down"]
    /\ toServer' = [toServer EXCEPT ![t][h] = <<>>]

(* On the client's side the connections to all hosts go with their         *)
(* CommitActors: what they wrote stays readable, the answers have no       *)
(* reader any more.                                                        *)
CloseByClient(t) ==
    /\ link' = [link EXCEPT ![t] = [h \in Host |->
                    IF link[t][h] = "up" THEN "closing" ELSE link[t][h]]]
    /\ toClient' = [toClient EXCEPT ![t] = [h \in Host |-> <<>>]]
    /\ UNCHANGED toServer

==============================================================================
