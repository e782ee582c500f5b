-------------------------- MODULE TwoPhaseCommitInv --------------------------
(***************************************************************************)
(* Why TwoPhaseCommit keeps its promises: the facts that hold between the  *)
(* coordinator, the messages under way and the hosts in every reachable    *)
(* state.  Their conjunction IndInv is inductive: TwoPhaseCommitInv_proofs *)
(* proves it.                                                              *)
(***************************************************************************)
EXTENDS TwoPhaseCommit

(* The command, answer or ask m is among those waiting in the queue q. *)
Waits(m, q) == \E i \in 1..Len(q) : q[i] = m

(* The coordinator never has too many hosts: those it has, those it asks   *)
(* and those left in the pool are apart.                                   *)
RoundInv(t) ==
    /\ phase[t] = "idle" => committing[t] = {}
    /\ phase[t] = "selecting" =>
        /\ pool[t] \cap committing[t] = {}
        /\ Cardinality(committing[t]) <= MinDbs
    /\ phase[t] = "voting" =>
        /\ (pool[t] \cup asked[t]) \cap committing[t] = {}
        /\ pool[t] \cap asked[t] = {}
        /\ Cardinality(committing[t]) + Cardinality(asked[t]) = MinDbs
    /\ phase[t] \in {"committing", "rollingBack"} \/ result[t] = "Ok" =>
        Cardinality(committing[t]) = MinDbs

(* A result ends the transaction, an answer reports the result. *)
ResultInv(t) ==
    /\ result[t] # "none" <=> phase[t] = "stopped"
    /\ http[t] = "ok" => result[t] = "Ok"
    /\ http[t] = "error" => result[t] = "Error"
    /\ http[t] = "idle" <=> phase[t] = "idle"

(* A connection is made once, and an agent that has finished an operation  *)
(* has stopped.                                                            *)
LifeInv(t, h) ==
    /\ phase[t] = "idle" \/ h \in pool[t] => actor[t][h] = "absent"
    /\ actor[t][h] \in {"absent", "connecting"} => agent[t][h] = "absent"
    /\ agent[t][h] = "absent" => ins[t][h] = "idle" /\ del[t][h] = "idle"
    /\ ins[t][h] \in {"done", "failed"} \/ del[t][h] \in {"done", "failed"}
        => agent[t][h] = "stopped"

CommitSent(t, h) ==
    \/ Waits("Commit", mailbox[t][h])
    \/ Waits(COMMIT, toServer[t][h])
    \/ ins[t][h] # "idle"

(* Commit goes only to the full set of chosen hosts. *)
CommitInv(t, h) ==
    CommitSent(t, h) =>
        /\ h \in committing[t]
        /\ Cardinality(committing[t]) = MinDbs
        /\ phase[t] \in {"committing", "rollingBack", "stopped", "crashed"}

RollbackSent(t, h) ==
    \/ Waits("Rollback", mailbox[t][h])
    \/ Waits(ROLLBACK, toServer[t][h])
    \/ del[t][h] # "idle"

(* Rollback is asked for only when the commit has failed for good. *)
RollbackInv(t, h) ==
    RollbackSent(t, h) =>
        /\ phase[t] \in {"rollingBack", "stopped", "crashed"}
        /\ result[t] # "Ok"

(* A host's collection is what its insertMany has inserted so far, until a *)
(* deleteMany takes it away.                                               *)
StorageInv(t, h) ==
    /\ \A i \in 1..NDocs : <<t, i>> \in votes[h] => i <= inserted[t][h]
    /\ del[t][h] = "idle" =>
        \A i \in 1..NDocs : i <= inserted[t][h] => <<t, i>> \in votes[h]
    /\ ins[t][h] = "idle" => inserted[t][h] = 0
    /\ ins[t][h] = "done" => inserted[t][h] = NDocs

(* An ACK comes from a finished insertMany or deleteMany, so an ask Commit *)
(* answered Ack has been carried out.                                      *)
AckInv(t, h) ==
    /\ Waits(ACK, toClient[t][h]) => ins[t][h] = "done" \/ del[t][h] = "done"
    /\ phase[t] = "committing" /\ h \in committing[t] /\ reply[t][h] = "Ack"
        => ins[t][h] = "done"
    /\ result[t] = "Ok" /\ h \in committing[t] => ins[t][h] = "done"

(* A yes vote means that the agent has the documents. *)
VoteInv(t, h) ==
    /\ Waits(VOTE_OK, toClient[t][h]) => toSave[t][h]
    /\ reply[t][h] = "VoteOk" => toSave[t][h]
    /\ h \in committing[t] => toSave[t][h]

CoordInv == \A t \in Tx : RoundInv(t) /\ ResultInv(t)

MessageInv == \A t \in Tx, h \in Host : CommitInv(t, h) /\ RollbackInv(t, h)

HostInv ==
    \A t \in Tx, h \in Host :
        LifeInv(t, h) /\ StorageInv(t, h) /\ AckInv(t, h) /\ VoteInv(t, h)

(* IndInv: the inductive invariant of the composed system. *)
IndInv == TypeOK /\ CoordInv /\ MessageInv /\ HostInv

(***************************************************************************)
(* The order of Commit and Rollback, invariant on top of IndInv.           *)
(***************************************************************************)
InOrder(q, first, last) ==
    \A i, j \in 1..Len(q) : q[i] = first /\ q[j] = last => i < j

(* Neither a mailbox nor a connection lets Rollback overtake Commit. *)
OrderInv(t, h) ==
    /\ InOrder(mailbox[t][h], "Commit", "Rollback")
    /\ InOrder(toServer[t][h], COMMIT, ROLLBACK)
    /\ Waits(ROLLBACK, toServer[t][h]) \/ del[t][h] # "idle"
        => ~Waits("Commit", mailbox[t][h])
    /\ del[t][h] # "idle" => ~Waits(COMMIT, toServer[t][h])

(* CommandOrder: from the mailbox of a CommitActor to the agent's reading   *)
(* of the connection no Rollback overtakes a Commit, whether or not either *)
(* is lost on the way; OrderInv says it of one host.                       *)
CommandOrder == \A t \in Tx, h \in Host : OrderInv(t, h)

(***************************************************************************)
(* Where a transaction stands with a host as long as hosts may fail to     *)
(* vote but not to commit; invariant on top of IndInv in that environment. *)
(***************************************************************************)
VotesOnlyFail == Faults \subseteq {"connect", "chunking"}

Silent(t, h) == toServer[t][h] = <<>> /\ toClient[t][h] = <<>>

Connection(t, h) ==
    /\ actor[t][h] = "open" /\ link[t][h] = "up" /\ agent[t][h] = "alive"
    /\ ins[t][h] = "idle"

(* The host has voted and waits for what the coordinator decides. *)
Ready(t, h) ==
    Connection(t, h) /\ Silent(t, h) /\ mailbox[t][h] = <<>>

(* A host that is not chosen yet: not asked, connecting, not reachable, or *)
(* on the way from VOTE to the vote, where a VOTE that is dropped ends.    *)
Candidate(t, h) ==
    /\ mailbox[t][h] = <<>>
    /\ \/ actor[t][h] = "absent" /\ Silent(t, h) /\ reply[t][h] = "none"
       \/ actor[t][h] = "connecting" /\ Silent(t, h) /\ reply[t][h] = "awaited"
       \/ actor[t][h] = "stopped" /\ Silent(t, h) /\ reply[t][h] = "VoteError"
       \/ /\ Connection(t, h)
          /\ \/ Silent(t, h)
             \/ /\ toServer[t][h] = <<VOTE>> /\ toClient[t][h] = <<>>
                /\ reply[t][h] = "awaited"
             \/ /\ toServer[t][h] = <<>> /\ toClient[t][h] = <<VOTE_OK>>
                /\ reply[t][h] = "awaited"

(* A chosen host on the way from Commit to Ack: the answer is coming.      *)
Acknowledging(t, h) ==
    \/ /\ Connection(t, h) /\ Silent(t, h)
       /\ mailbox[t][h] = <<"Commit">> /\ reply[t][h] = "awaited"
    \/ /\ Connection(t, h) /\ mailbox[t][h] = <<>> /\ reply[t][h] = "awaited"
       /\ toServer[t][h] = <<COMMIT>> /\ toClient[t][h] = <<>>
    \/ /\ actor[t][h] = "open" /\ link[t][h] = "up" /\ agent[t][h] = "alive"
       /\ ins[t][h] = "running" /\ Silent(t, h)
       /\ mailbox[t][h] = <<>> /\ reply[t][h] = "awaited"
    \/ /\ actor[t][h] = "open" /\ link[t][h] = "down" /\ mailbox[t][h] = <<>>
       /\ toServer[t][h] = <<>> /\ toClient[t][h] = <<ACK>>
       /\ ins[t][h] = "done" /\ reply[t][h] = "awaited"
    \/ reply[t][h] = "Ack"

StageInv(t, h) ==
    /\ phase[t] \in {"idle", "selecting", "voting"} =>
        IF h \in committing[t] THEN Ready(t, h) ELSE Candidate(t, h)
    /\ phase[t] = "committing" /\ h \in committing[t] => Acknowledging(t, h)

(* NoRollback: where hosts can only fail to vote, every Commit that is     *)
(* asked for is acknowledged in time; the coordinator never rolls back and *)
(* answers "error" only when it has found too few hosts that vote.         *)
NoRollback ==
    /\ \A t \in Tx, h \in Host : StageInv(t, h)
    /\ \A t \in Tx :
        /\ phase[t] \notin {"rollingBack", "crashed"}
        /\ result[t] = "Error" => Cardinality(committing[t]) < MinDbs

==============================================================================
