------------------------- MODULE TwoPhaseCommitActor -------------------------
(***************************************************************************)
(* rso-client above its CommitActors: MainServlet, which answers the HTTP  *)
(* POST, and the TwoPhaseCommitActor it starts for it, whose Future picks  *)
(* hosts, collects votes, commits and, when that fails, rolls back.  Every *)
(* Await.result of the Future is a phase.                                  *)
(***************************************************************************)
EXTENDS CommitActor

CONSTANT MinDbs    \* REDUNDANCY: hosts every transaction must reach

ASSUME MinDbsAssumption == MinDbs \in Nat

VARIABLES
    http,         \* http[t]: the POST, as its sender sees it
    phase,        \* phase[t]: where the Future of t stands
    result,       \* result[t]: what the Future has returned
    pool,         \* pool[t]: potentialDbsIndicies
    asked,        \* asked[t]: the hosts of the current voting round
    committing    \* committing[t]: commitingActors, by host

coordVars == <<http, phase, result, pool, asked, committing>>

(***************************************************************************)
(* "failed" is an HTTP 500 or a broken connection: the sender knows        *)
(* nothing about its votes.                                                *)
(***************************************************************************)
HttpStates == {"idle", "waiting", "ok", "error", "failed"}
Active == {"selecting", "voting", "committing", "rollingBack"}
Phases == {"idle", "stopped", "crashed"} \cup Active
Results == {"none", "Ok", "Error"}

CoordTypeOK ==
    /\ http \in [Tx -> HttpStates]
    /\ phase \in [Tx -> Phases]
    /\ result \in [Tx -> Results]
    /\ pool \in [Tx -> SUBSET Host]
    /\ asked \in [Tx -> SUBSET Host]
    /\ committing \in [Tx -> SUBSET Host]

CoordInit ==
    /\ http = [t \in Tx |-> "idle"]
    /\ phase = [t \in Tx |-> "idle"]
    /\ result = [t \in Tx |-> "none"]
    /\ pool = [t \in Tx |-> {}]
    /\ asked = [t \in Tx |-> {}]
    /\ committing = [t \in Tx |-> {}]

Goto(t, p) == phase' = [phase EXCEPT ![t] = p]

(* leftToCommitCount *)
Left(t) == MinDbs - Cardinality(committing[t])

(* post("/"): a fresh txId, a TwoPhaseCommitActor, and ? "go" *)
Post(t) ==
    /\ phase[t] = "idle"
    /\ http' = [http EXCEPT ![t] = "waiting"]
    /\ Goto(t, "selecting")
    /\ pool' = [pool EXCEPT ![t] = Host]
    /\ UNCHANGED <<linkVars, actorVars, result, asked, committing>>

(* Mutant of SelectHosts: the hosts drawn stay in the pool. *)
SelectHostsAgain(t) ==
    /\ phase[t] = "selecting"
    /\ Cardinality(committing[t]) < MinDbs
    /\ \E S \in SUBSET pool[t] :
        /\ Cardinality(S) = Left(t)
        /\ asked' = [asked EXCEPT ![t] = S]
        /\ AskVote(t, S)
    /\ Goto(t, "voting")
    /\ UNCHANGED <<linkVars, http, result, pool, committing>>

(* One round of selectActorsForCommit: draw the missing hosts and ask them *)
(* to vote.                                                                *)
SelectHosts(t) ==
    /\ phase[t] = "selecting"
    /\ Cardinality(committing[t]) < MinDbs
    /\ \E S \in SUBSET pool[t] :
        /\ Cardinality(S) = Left(t)
        /\ pool' = [pool EXCEPT ![t] = @ \ S]
        /\ asked' = [asked EXCEPT ![t] = S]
        /\ AskVote(t, S)
    /\ Goto(t, "voting")
    /\ UNCHANGED <<linkVars, http, result, committing>>

(* The end of the Future in every branch: context stop self. *)
Finish(t, res) ==
    /\ Goto(t, "stopped")
    /\ result' = [result EXCEPT ![t] = res]
    /\ StopActors(t)
    /\ UNCHANGED <<http, pool, asked, committing>>

(* throw "Not enough db nodes running!", recovered to Error *)
NotEnough(t) ==
    /\ phase[t] = "selecting"
    /\ Cardinality(committing[t]) < MinDbs
    /\ Left(t) > Cardinality(pool[t])
    /\ Finish(t, "Error")

Answered(t, S) == \A h \in S : reply[t][h] # "awaited"

(* Mutant of CollectVotes: whoever has not refused counts as a yes. *)
CollectAnyAnswer(t) ==
    /\ phase[t] = "voting"
    /\ Answered(t, asked[t])
    /\ committing' = [committing EXCEPT ![t] =
                         @ \cup {h \in asked[t] : reply[t][h] # "VoteError"}]
    /\ Goto(t, "selecting")
    /\ UNCHANGED <<linkVars, actorVars, http, result, pool, asked>>

(* The votes are in: those that are VoteOk join commitingActors. *)
CollectVotes(t) ==
    /\ phase[t] = "voting"
    /\ Answered(t, asked[t])
    /\ committing' = [committing EXCEPT ![t] =
                         @ \cup {h \in asked[t] : reply[t][h] = "VoteOk"}]
    /\ Goto(t, "selecting")
    /\ UNCHANGED <<linkVars, actorVars, http, result, pool, asked>>

(* Mutant of StartCommit: it does not wait for REDUNDANCY votes. *)
StartCommitEarly(t) ==
    /\ phase[t] = "selecting"
    /\ committing[t] # {}
    /\ Ask(t, committing[t], "Commit")
    /\ Goto(t, "committing")
    /\ UNCHANGED <<linkVars, http, result, pool, asked, committing>>

(* commitTransaction: ask Commit of all *)
StartCommit(t) ==
    /\ phase[t] = "selecting"
    /\ Cardinality(committing[t]) >= MinDbs
    /\ Ask(t, committing[t], "Commit")
    /\ Goto(t, "committing")
    /\ UNCHANGED <<linkVars, http, result, pool, asked, committing>>

(* Mutant of AllAck: an ask that timed out is good enough. *)
AllAckOrTimedOut(t) ==
    \A h \in committing[t] : reply[t][h] \in {"Ack", "UnknownError"}

AllAck(t) == \A h \in committing[t] : reply[t][h] = "Ack"

(* Mutant of CommitOk: the answers are not looked at. *)
CommitOkUnchecked(t) ==
    /\ phase[t] = "committing"
    /\ Answered(t, committing[t])
    /\ Finish(t, "Ok")

CommitOk(t) ==
    /\ phase[t] = "committing"
    /\ Answered(t, committing[t])
    /\ AllAck(t)
    /\ Finish(t, "Ok")

(* throw "Commit failed", caught: ask Rollback of all *)
StartRollback(t) ==
    /\ phase[t] = "committing"
    /\ Answered(t, committing[t])
    /\ ~AllAck(t)
    /\ Ask(t, committing[t], "Rollback")
    /\ Goto(t, "rollingBack")
    /\ UNCHANGED <<linkVars, http, result, pool, asked, committing>>

(* Whether rollback returns or throws, the result is Error. *)
RollbackDone(t) ==
    /\ phase[t] = "rollingBack"
    /\ Answered(t, committing[t])
    /\ Finish(t, "Error")

(* pipeTo sender(), unless the servlet's ask has timed out *)
RespondHttp(t) ==
    /\ phase[t] = "stopped"
    /\ http[t] = "waiting"
    /\ http' = [http EXCEPT ![t] = IF result[t] = "Ok" THEN "ok" ELSE "error"]
    /\ UNCHANGED <<linkVars, actorVars, phase, result, pool, asked, committing>>

(* The servlet's own ask times out; the transaction goes on without it. *)
HttpTimeout(t) ==
    /\ "http" \in Faults
    /\ http[t] = "waiting"
    /\ http' = [http EXCEPT ![t] = "failed"]
    /\ UNCHANGED <<linkVars, actorVars, phase, result, pool, asked, committing>>

(* The rso-client process that serves t dies. *)
ClientCrash(t) ==
    /\ "clientCrash" \in Faults
    /\ phase[t] \in Active
    /\ Goto(t, "crashed")
    /\ http' = [http EXCEPT ![t] = IF @ = "waiting" THEN "failed" ELSE @]
    /\ StopActors(t)
    /\ UNCHANGED <<result, pool, asked, committing>>

==============================================================================
