----------------------------- MODULE CommitActor -----------------------------
(***************************************************************************)
(* The CommitActors of rso-client: one per transaction and host the        *)
(* coordinator has picked.  A CommitActor owns the TCP connection to the   *)
(* host, turns the coordinator's asks into commands and the answers it     *)
(* reads into replies to the ask it handled last (`listener`).             *)
(***************************************************************************)
EXTENDS Messages2PC

VARIABLES
    actor,      \* actor[t][h]: life of the CommitActor
    mailbox,    \* mailbox[t][h]: asks it has not handled yet
    reply       \* reply[t][h]: the future of the latest ask

actorVars == <<actor, mailbox, reply>>

(***************************************************************************)
(* "connecting": created, Vote handled, Connect issued; "open": Connected  *)
(* received, the connection is registered.                                 *)
(***************************************************************************)
ActorStates == {"absent", "connecting", "open", "stopped"}

(* A future is "awaited" until an answer or its timeout completes it. *)
Replies == {"none", "awaited", "VoteOk", "VoteError", "Ack", "UnknownError"}

ActorTypeOK ==
    /\ actor \in [Tx -> [Host -> ActorStates]]
    /\ mailbox \in [Tx -> [Host -> Seq({"Commit", "Rollback"})]]
    /\ reply \in [Tx -> [Host -> Replies]]

ActorInit ==
    /\ actor = [t \in Tx |-> [h \in Host |-> "absent"]]
    /\ mailbox = [t \in Tx |-> [h \in Host |-> <<>>]]
    /\ reply = [t \in Tx |-> [h \in Host |-> "none"]]

(* listener.get ! answer completes the ask unless that has timed out. *)
ReplyListener(t, h, answer) ==
    reply' = [reply EXCEPT ![t][h] = IF @ = "awaited" THEN answer ELSE @]

AnswerTo(response) == IF response = VOTE_OK THEN "VoteOk" ELSE "Ack"

(* actor ? Vote on every host of S, with the actors created for it *)
AskVote(t, S) ==
    /\ actor' = [actor EXCEPT ![t] = [h \in Host |->
                    IF h \in S THEN "connecting" ELSE actor[t][h]]]
    /\ reply' = [reply EXCEPT ![t] = [h \in Host |->
                    IF h \in S THEN "awaited" ELSE reply[t][h]]]
    /\ UNCHANGED mailbox

(* actor ? ask on every host of S *)
Ask(t, S, ask) ==
    /\ mailbox' = [mailbox EXCEPT ![t] = [h \in Host |->
                      IF h \in S THEN Append(mailbox[t][h], ask)
                                 ELSE mailbox[t][h]]]
    /\ reply' = [reply EXCEPT ![t] = [h \in Host |->
                    IF h \in S THEN "awaited" ELSE reply[t][h]]]
    /\ UNCHANGED actor

(* The CommitActors of t stop with their parent, and the connections with  *)
(* them; whatever their mailboxes held is not handled any more.            *)
StopActors(t) ==
    /\ actor' = [actor EXCEPT ![t] = [h \in Host |->
                    IF actor[t][h] = "absent" THEN "absent" ELSE "stopped"]]
    /\ mailbox' = [mailbox EXCEPT ![t] = [h \in Host |-> <<>>]]
    /\ CloseByClient(t)
    /\ UNCHANGED reply

(* CommandFailed(_: Connect) *)
ConnectFailed(t, h) ==
    /\ "connect" \in Faults
    /\ actor[t][h] = "connecting"
    /\ actor' = [actor EXCEPT ![t][h] = "stopped"]
    /\ ReplyListener(t, h, "VoteError")
    /\ UNCHANGED <<linkVars, mailbox>>

(* Connected(remote, local): register and write VOTE, even when the Vote   *)
(* ask has long timed out.                                                 *)
Connected(t, h) ==
    /\ actor[t][h] = "connecting"
    /\ actor' = [actor EXCEPT ![t][h] = "open"]
    /\ link' = [link EXCEPT ![t][h] = "up"]
    /\ toServer' = [toServer EXCEPT ![t][h] = Append(@, VOTE)]
    /\ UNCHANGED <<toClient, mailbox, reply>>

(* Received(data).  The listener is the ask handled last: while a newer    *)
(* ask waits in the mailbox the answer goes to one that has timed out.     *)
Received(t, h) ==
    /\ actor[t][h] = "open"
    /\ toClient[t][h] # <<>>
    /\ toClient' = [toClient EXCEPT ![t][h] = Tail(@)]
    /\ IF mailbox[t][h] = <<>>
       THEN ReplyListener(t, h, AnswerTo(Head(toClient[t][h])))
       ELSE UNCHANGED reply
    /\ UNCHANGED <<link, toServer, actor, mailbox>>

(* case Commit *)
HandleCommit(t, h) ==
    /\ actor[t][h] = "open"
    /\ mailbox[t][h] # <<>> /\ Head(mailbox[t][h]) = "Commit"
    /\ mailbox' = [mailbox EXCEPT ![t][h] = Tail(@)]
    /\ WriteCommand(t, h, COMMIT)
    /\ UNCHANGED <<link, toClient, actor, reply>>

(* Mutant of HandleRollback: Rollback overtakes the Commit before it. *)
HandleRollbackFirst(t, h) ==
    /\ actor[t][h] = "open"
    /\ \E i \in 1..Len(mailbox[t][h]) :
        /\ mailbox[t][h][i] = "Rollback"
        /\ mailbox' = [mailbox EXCEPT ![t][h] = SubSeq(@, 1, i - 1)]
    /\ WriteCommand(t, h, ROLLBACK)
    /\ ReplyListener(t, h, "Ack")
    /\ UNCHANGED <<link, toClient, actor>>

(* case Rollback: the actor answers Ack itself, it does not wait for the   *)
(* host.                                                                   *)
HandleRollback(t, h) ==
    /\ actor[t][h] = "open"
    /\ mailbox[t][h] # <<>> /\ Head(mailbox[t][h]) = "Rollback"
    /\ mailbox' = [mailbox EXCEPT ![t][h] = Tail(@)]
    /\ WriteCommand(t, h, ROLLBACK)
    /\ ReplyListener(t, h, "Ack")
    /\ UNCHANGED <<link, toClient, actor>>

(* The timeout of the ask expires; recover turns it into UnknownError. *)
AskTimeout(t, h) ==
    /\ reply[t][h] = "awaited"
    /\ reply' = [reply EXCEPT ![t][h] = "UnknownError"]
    /\ UNCHANGED <<linkVars, actor, mailbox>>

==============================================================================
