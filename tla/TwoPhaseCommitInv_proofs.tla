----------------------- MODULE TwoPhaseCommitInv_proofs -----------------------
(***************************************************************************)
(* Theorems about TwoPhaseCommit for every set of transactions and hosts,  *)
(* every REDUNDANCY, every number of documents and every set of faults:    *)
(* TypeOK and IndInv are invariants.  One lemma per action says that the   *)
(* action keeps every part of IndInv, for every transaction u and host g,  *)
(* also when the action is one of another transaction t or another host h. *)
(***************************************************************************)
EXTENDS TwoPhaseCommitInv, FiniteSetTheorems, TLAPS

USE DEF Commands, Answers, LinkStates, AgentStates, OpStates, ActorStates,
        Replies, HttpStates, Phases, Active, Results,
        VOTE, VOTE_OK, ACK, COMMIT, ROLLBACK

(***************************************************************************)
(* Type correctness, component by component.                               *)
(***************************************************************************)
LEMMA InitType == Init => TypeOK
  BY NDocsAssumption
     DEF Init, LinkInit, AgentInit, ActorInit, CoordInit,
         TypeOK, LinkTypeOK, AgentTypeOK, ActorTypeOK, CoordTypeOK

LEMMA CoordStepType ==
    ASSUME TypeOK, NEW t \in Tx, CoordStep(t)
    PROVE  TypeOK'
<1>0. AgentTypeOK'
  BY DEF CoordStep, TypeOK, AgentTypeOK, agentVars
<1> USE DEF TypeOK, LinkTypeOK, ActorTypeOK, CoordTypeOK, Goto
<1>1. CASE SelectHosts(t)
  BY <1>0, <1>1 DEF SelectHosts, AskVote, linkVars
<1>2. CASE NotEnough(t)
  BY <1>0, <1>2 DEF NotEnough, Finish, StopActors, CloseByClient
<1>3. CASE CollectVotes(t)
  BY <1>0, <1>3 DEF CollectVotes, linkVars, actorVars
<1>4. CASE StartCommit(t)
  BY <1>0, <1>4 DEF StartCommit, Ask, linkVars
<1>5. CASE CommitOk(t)
  BY <1>0, <1>5 DEF CommitOk, Finish, StopActors, CloseByClient
<1>6. CASE StartRollback(t)
  BY <1>0, <1>6 DEF StartRollback, Ask, linkVars
<1>7. CASE RollbackDone(t)
  BY <1>0, <1>7 DEF RollbackDone, Finish, StopActors, CloseByClient
<1>. QED
  BY <1>1, <1>2, <1>3, <1>4, <1>5, <1>6, <1>7 DEF CoordStep

LEMMA AgentStepType ==
    ASSUME TypeOK, NEW t \in Tx, NEW h \in Host, AgentStep(t, h) \/ PeerClosed(t, h)
    PROVE  LinkTypeOK' /\ AgentTypeOK'
<1> USE DEF TypeOK, LinkTypeOK, AgentTypeOK, Reads, Consume, Respond,
            StopAgent, CloseByServer, linkVars
<1>1. CASE ReadVote(t, h)
  BY <1>1 DEF ReadVote
<1>2. CASE ReadCommit(t, h)
  BY <1>2 DEF ReadCommit
<1>3. CASE ReadRollback(t, h)
  BY <1>3 DEF ReadRollback
<1>4. CASE InsertDocument(t, h)
  BY <1>4, NDocsAssumption DEF InsertDocument
<1>5. CASE InsertDone(t, h)
  BY <1>5 DEF InsertDone
<1>6. CASE DeleteDone(t, h)
  BY <1>6 DEF DeleteDone
<1>7. CASE PeerClosed(t, h)
  BY <1>7 DEF PeerClosed
<1>8. CASE ErrorClosed(t, h)
  BY <1>8 DEF ErrorClosed, agentVars
<1>. QED
  BY <1>1, <1>2, <1>3, <1>4, <1>5, <1>6, <1>7, <1>8 DEF AgentStep

LEMMA AgentFaultType ==
    ASSUME TypeOK, NEW t \in Tx, NEW h \in Host, AgentFault(t, h)
    PROVE  LinkTypeOK' /\ AgentTypeOK'
<1> USE DEF TypeOK, LinkTypeOK, AgentTypeOK, Reads, Consume, agentVars,
            StopAgent, CloseByServer
<1>1. CASE DropSplitVote(t, h)
  BY <1>1 DEF DropSplitVote
<1>2. CASE DropJoinedCommands(t, h)
  BY <1>2 DEF DropJoinedCommands
<1>3. CASE InsertFailed(t, h)
  BY <1>3 DEF InsertFailed
<1>4. CASE DeleteFailed(t, h)
  BY <1>4 DEF DeleteFailed
<1>5. CASE Reset(t, h)
  BY <1>5 DEF Reset
<1>. QED
  BY <1>1, <1>2, <1>3, <1>4, <1>5 DEF AgentFault

LEMMA ServerCrashType ==
    ASSUME TypeOK, NEW h \in Host, ServerCrash(h)
    PROVE  LinkTypeOK' /\ AgentTypeOK'
<1> USE DEF TypeOK, LinkTypeOK, AgentTypeOK
<1>1. PICK mongodToo \in BOOLEAN :
        LET Cut(op) == [t \in Tx |-> [op[t] EXCEPT ![h] =
                           IF mongodToo /\ @ = "running" THEN "failed" ELSE @]]
        IN  ins' = Cut(ins) /\ del' = Cut(del)
  BY DEF ServerCrash
<1>2. ins' \in [Tx -> [Host -> OpStates]] /\ del' \in [Tx -> [Host -> OpStates]]
  BY <1>1
<1>3. LinkTypeOK'
  BY DEF ServerCrash
<1>. QED
  BY <1>2, <1>3 DEF ServerCrash

LEMMA ServletType ==
    ASSUME TypeOK, NEW t \in Tx, Servlet(t)
    PROVE  TypeOK'
<1> USE DEF TypeOK, LinkTypeOK, ActorTypeOK, CoordTypeOK, AgentTypeOK,
            linkVars, actorVars, agentVars, Goto
<1>1. ASSUME Servlet(t), Post(t) PROVE TypeOK'
  BY <1>1 DEF Servlet, Post
<1>2. ASSUME Servlet(t), RespondHttp(t) PROVE TypeOK'
  BY <1>2 DEF Servlet, RespondHttp
<1>3. ASSUME Servlet(t), HttpTimeout(t) PROVE TypeOK'
  BY <1>3 DEF Servlet, HttpTimeout
<1>. QED
  BY <1>1, <1>2, <1>3 DEF Servlet

LEMMA ClientCrashType ==
    ASSUME TypeOK, NEW t \in Tx, ClientCrash(t), UNCHANGED agentVars
    PROVE  TypeOK'
  BY DEF TypeOK, LinkTypeOK, ActorTypeOK, CoordTypeOK, AgentTypeOK,
         agentVars, Goto, ClientCrash, StopActors, CloseByClient

LEMMA ConnectionType ==
    ASSUME TypeOK, NEW t \in Tx, NEW h \in Host,
           \/ Connect(t, h) \/ Timeout(t, h) \/ ActorStep(t, h)
           \/ ConnectFailed(t, h) /\ UNCHANGED <<agentVars, coordVars>>
    PROVE  TypeOK'
<1> USE DEF TypeOK, LinkTypeOK, ActorTypeOK, CoordTypeOK, AgentTypeOK,
            linkVars, agentVars, coordVars, ReplyListener
<1>1. CASE Connect(t, h)
  <2>. HIDE DEF TypeOK, LinkTypeOK, ActorTypeOK, CoordTypeOK, AgentTypeOK
  <2>0. LinkTypeOK /\ ActorTypeOK /\ CoordTypeOK /\ AgentTypeOK
    BY DEF TypeOK
  <2>1. LinkTypeOK'
    BY <1>1, <2>0 DEF Connect, Connected, LinkTypeOK
  <2>2. ActorTypeOK'
    BY <1>1, <2>0 DEF Connect, Connected, ActorTypeOK
  <2>3. AgentTypeOK' /\ CoordTypeOK'
    BY <1>1, <2>0 DEF Connect, AgentTypeOK, CoordTypeOK
  <2>. QED
    BY <2>1, <2>2, <2>3 DEF TypeOK
<1>2. CASE Timeout(t, h)
  BY <1>2 DEF Timeout, AskTimeout
<1>3. ASSUME ActorStep(t, h), Received(t, h) PROVE TypeOK'
  <2>1. PICK a \in Replies : reply' = [reply EXCEPT ![t][h] = a]
    <3>1. reply[t][h] \in Replies /\ reply = [reply EXCEPT ![t][h] = reply[t][h]]
      OBVIOUS
    <3>2. AnswerTo(Head(toClient[t][h])) \in Replies
      BY DEF AnswerTo
    <3>. QED
      BY <1>3, <3>1, <3>2 DEF Received
  <2>2. ActorTypeOK'
    BY <1>3, <2>1 DEF Received
  <2>3. LinkTypeOK'
    BY <1>3 DEF Received
  <2>. QED
    BY <1>3, <2>2, <2>3 DEF ActorStep
<1>4. ASSUME ActorStep(t, h), HandleCommit(t, h) PROVE TypeOK'
  <2>. HIDE DEF TypeOK, LinkTypeOK, ActorTypeOK, CoordTypeOK, AgentTypeOK
  <2>0. LinkTypeOK /\ ActorTypeOK /\ CoordTypeOK /\ AgentTypeOK
    BY DEF TypeOK
  <2>1. LinkTypeOK'
    BY <1>4, <2>0 DEF HandleCommit, WriteCommand, LinkTypeOK
  <2>2. ActorTypeOK'
    BY <1>4, <2>0 DEF HandleCommit, ActorTypeOK
  <2>3. AgentTypeOK' /\ CoordTypeOK'
    BY <1>4, <2>0 DEF ActorStep, AgentTypeOK, CoordTypeOK
  <2>. QED
    BY <2>1, <2>2, <2>3 DEF TypeOK
<1>5. ASSUME ActorStep(t, h), HandleRollback(t, h) PROVE TypeOK'
  <2>. HIDE DEF TypeOK, LinkTypeOK, ActorTypeOK, CoordTypeOK, AgentTypeOK
  <2>0. LinkTypeOK /\ ActorTypeOK /\ CoordTypeOK /\ AgentTypeOK
    BY DEF TypeOK
  <2>1. LinkTypeOK'
    BY <1>5, <2>0 DEF HandleRollback, WriteCommand, LinkTypeOK
  <2>2. ActorTypeOK'
    BY <1>5, <2>0 DEF HandleRollback, ActorTypeOK
  <2>3. AgentTypeOK' /\ CoordTypeOK'
    BY <1>5, <2>0 DEF ActorStep, AgentTypeOK, CoordTypeOK
  <2>. QED
    BY <2>1, <2>2, <2>3 DEF TypeOK
<1>6. CASE ConnectFailed(t, h) /\ UNCHANGED <<agentVars, coordVars>>
  <2>. HIDE DEF TypeOK, LinkTypeOK, ActorTypeOK, CoordTypeOK, AgentTypeOK
  <2>0. LinkTypeOK /\ ActorTypeOK /\ CoordTypeOK /\ AgentTypeOK
    BY DEF TypeOK
  <2>1. LinkTypeOK' /\ AgentTypeOK' /\ CoordTypeOK'
    BY <1>6, <2>0 DEF ConnectFailed, LinkTypeOK, AgentTypeOK, CoordTypeOK
  <2>2. ActorTypeOK'
    BY <1>6, <2>0 DEF ConnectFailed, ActorTypeOK
  <2>. QED
    BY <2>1, <2>2 DEF TypeOK
<1>. QED
  BY <1>1, <1>2, <1>3, <1>4, <1>5, <1>6 DEF ActorStep

LEMMA NextType == TypeOK /\ [Next]_vars => TypeOK'
<1> SUFFICES ASSUME TypeOK, [Next]_vars PROVE TypeOK'
  OBVIOUS
<1>1. ASSUME NEW t \in Tx, CoordStep(t) PROVE TypeOK'
  BY <1>1, CoordStepType
<1>2. ASSUME NEW t \in Tx, Servlet(t) PROVE TypeOK'
  BY <1>2, ServletType
<1>3. ASSUME NEW t \in Tx, NEW h \in Host,
             \/ Connect(t, h) \/ Timeout(t, h) \/ ActorStep(t, h)
             \/ ConnectFailed(t, h) /\ UNCHANGED <<agentVars, coordVars>>
      PROVE  TypeOK'
  BY <1>3, ConnectionType
<1>4. ASSUME NEW t \in Tx, NEW h \in Host,
             \/ ServerStep(t, h)
             \/ AgentFault(t, h) /\ UNCHANGED <<actorVars, coordVars>>
      PROVE  TypeOK'
  <2>1. LinkTypeOK' /\ AgentTypeOK'
    BY <1>4, AgentStepType, AgentFaultType DEF ServerStep
  <2>. QED
    BY <1>4, <2>1
       DEF ServerStep, TypeOK, ActorTypeOK, CoordTypeOK, actorVars, coordVars
<1>5. ASSUME NEW h \in Host, ServerCrash(h) /\ UNCHANGED <<actorVars, coordVars>>
      PROVE  TypeOK'
  BY <1>5, ServerCrashType
     DEF TypeOK, ActorTypeOK, CoordTypeOK, actorVars, coordVars
<1>8. ASSUME NEW t \in Tx, ClientCrash(t), UNCHANGED agentVars PROVE TypeOK'
  BY <1>8, ClientCrashType
<1>6. CASE UNCHANGED vars
  BY <1>6 DEF vars, TypeOK, LinkTypeOK, AgentTypeOK, ActorTypeOK, CoordTypeOK,
              linkVars, agentVars, actorVars, coordVars
<1>7. CASE Next
  <2>1. CASE \E t \in Tx : CoordStep(t) \/ Servlet(t)
    BY <2>1, <1>1, <1>2
  <2>2. CASE \E t \in Tx, h \in Host :
          Connect(t, h) \/ Timeout(t, h) \/ ActorStep(t, h) \/ ServerStep(t, h)
    BY <2>2, <1>3, <1>4
  <2>3. CASE Fault
    BY <2>3, <1>8, <1>3, <1>4, <1>5 DEF Fault
  <2>. QED
    BY <1>6, <1>7, <2>1, <2>2, <2>3 DEF Next, AllDone
<1>. QED
  BY <1>6, <1>7

(* TypeCorrect: every variable keeps to its type, in every environment. *)
THEOREM TypeCorrect == Spec => []TypeOK
  BY InitType, NextType, PTL DEF Spec

(***************************************************************************)
(* What waits in a queue.                                                  *)
(***************************************************************************)
LEMMA WaitsEmpty ==
    ASSUME NEW m PROVE ~Waits(m, <<>>)
  BY DEF Waits

LEMMA WaitsAppend ==
    ASSUME NEW S, NEW q \in Seq(S), NEW x \in S, NEW m
    PROVE  Waits(m, Append(q, x)) <=> Waits(m, q) \/ m = x
<1>1. Len(Append(q, x)) = Len(q) + 1 /\ Append(q, x)[Len(q) + 1] = x
  OBVIOUS
<1>2. \A i \in 1..Len(q) : Append(q, x)[i] = q[i]
  OBVIOUS
<1>3. \A i \in 1..Len(q) + 1 : i \in 1..Len(q) \/ i = Len(q) + 1
  OBVIOUS
<1>4. Len(q) + 1 \in 1..Len(q) + 1 /\ 1..Len(q) \subseteq 1..Len(q) + 1
  OBVIOUS
<1>. QED
  BY <1>1, <1>2, <1>3, <1>4 DEF Waits

LEMMA WaitsTail ==
    ASSUME NEW S, NEW q \in Seq(S), q # <<>>, NEW m, Waits(m, Tail(q))
    PROVE  Waits(m, q)
<1>1. PICK i \in 1..Len(Tail(q)) : Tail(q)[i] = m
  BY DEF Waits
<1>2. i + 1 \in 1..Len(q) /\ q[i + 1] = m
  BY <1>1
<1>. QED
  BY <1>2 DEF Waits

LEMMA WaitsHead ==
    ASSUME NEW S, NEW q \in Seq(S), q # <<>>
    PROVE  Waits(Head(q), q)
<1>1. 1 \in 1..Len(q) /\ q[1] = Head(q)
  OBVIOUS
<1>. QED
  BY <1>1 DEF Waits

(***************************************************************************)
(* What the reads and writes of the protocol do to the queues.             *)
(***************************************************************************)
LEMMA AfterWrite ==
    ASSUME TypeOK, NEW t \in Tx, NEW h \in Host, NEW c \in Commands,
           WriteCommand(t, h, c), NEW u \in Tx, NEW g \in Host
    PROVE  \A m : Waits(m, toServer'[u][g]) =>
                    Waits(m, toServer[u][g]) \/ (u = t /\ g = h /\ m = c)
<1>1. toServer[t][h] \in Seq(Commands)
  BY DEF TypeOK, LinkTypeOK
<1>2. \A m : Waits(m, Append(toServer[t][h], c)) <=>
             Waits(m, toServer[t][h]) \/ m = c
  BY <1>1, WaitsAppend
<1>3. CASE toServer' = toServer
  BY <1>3
<1>4. CASE toServer' = [toServer EXCEPT ![t][h] = Append(@, c)]
  <2>1. CASE u = t /\ g = h
    BY <1>2, <1>4, <2>1 DEF TypeOK, LinkTypeOK
  <2>2. CASE ~(u = t /\ g = h)
    BY <1>4, <2>2 DEF TypeOK, LinkTypeOK
  <2>. QED
    BY <2>1, <2>2
<1>. QED
  BY <1>3, <1>4 DEF WriteCommand

LEMMA AfterRespond ==
    ASSUME TypeOK, NEW t \in Tx, NEW h \in Host, NEW c \in Answers,
           Respond(t, h, c), NEW u \in Tx, NEW g \in Host
    PROVE  \A m : Waits(m, toClient'[u][g]) =>
                    Waits(m, toClient[u][g]) \/ (u = t /\ g = h /\ m = c)
<1>1. toClient[t][h] \in Seq(Answers)
  BY DEF TypeOK, LinkTypeOK
<1>2. \A m : Waits(m, Append(toClient[t][h], c)) <=>
             Waits(m, toClient[t][h]) \/ m = c
  BY <1>1, WaitsAppend
<1>3. CASE toClient' = toClient
  BY <1>3
<1>4. CASE toClient' = [toClient EXCEPT ![t][h] = Append(@, c)]
  <2>1. CASE u = t /\ g = h
    BY <1>2, <1>4, <2>1 DEF TypeOK, LinkTypeOK
  <2>2. CASE ~(u = t /\ g = h)
    BY <1>4, <2>2 DEF TypeOK, LinkTypeOK
  <2>. QED
    BY <2>1, <2>2
<1>. QED
  BY <1>3, <1>4 DEF Respond

LEMMA AfterRead ==
    ASSUME TypeOK, NEW t \in Tx, NEW h \in Host, NEW c,
           Reads(t, h, c), Consume(t, h), NEW u \in Tx, NEW g \in Host
    PROVE  /\ Waits(c, toServer[t][h])
           /\ \A m : Waits(m, toServer'[u][g]) => Waits(m, toServer[u][g])
<1>1. toServer[t][h] \in Seq(Commands) /\ toServer[t][h] # <<>>
  BY DEF TypeOK, LinkTypeOK, Reads
<1>2. \A m : Waits(m, Tail(toServer[t][h])) => Waits(m, toServer[t][h])
  BY <1>1, WaitsTail
<1>3. Waits(c, toServer[t][h])
  BY <1>1, WaitsHead DEF Reads
<1>4. CASE u = t /\ g = h
  BY <1>2, <1>3, <1>4 DEF Consume, TypeOK, LinkTypeOK
<1>5. CASE ~(u = t /\ g = h)
  BY <1>3, <1>5 DEF Consume, TypeOK, LinkTypeOK
<1>. QED
  BY <1>4, <1>5

LEMMA AfterReceived ==
    ASSUME TypeOK, NEW t \in Tx, NEW h \in Host, Received(t, h),
           NEW u \in Tx, NEW g \in Host
    PROVE  /\ Head(toClient[t][h]) \in Answers
           /\ Waits(Head(toClient[t][h]), toClient[t][h])
           /\ \A m : Waits(m, toClient'[u][g]) => Waits(m, toClient[u][g])
<1>1. toClient[t][h] \in Seq(Answers) /\ toClient[t][h] # <<>>
  BY DEF TypeOK, LinkTypeOK, Received
<1>2. \A m : Waits(m, Tail(toClient[t][h])) => Waits(m, toClient[t][h])
  BY <1>1, WaitsTail
<1>3. Head(toClient[t][h]) \in Answers /\ Waits(Head(toClient[t][h]), toClient[t][h])
  BY <1>1, WaitsHead
<1>4. toClient' = [toClient EXCEPT ![t][h] = Tail(@)]
  BY DEF Received
<1>5. CASE u = t /\ g = h
  BY <1>2, <1>3, <1>4, <1>5 DEF TypeOK, LinkTypeOK
<1>6. CASE ~(u = t /\ g = h)
  BY <1>3, <1>4, <1>6 DEF TypeOK, LinkTypeOK
<1>. QED
  BY <1>5, <1>6

LEMMA AfterAsk ==
    ASSUME TypeOK, NEW t \in Tx, NEW S \in SUBSET Host,
           NEW ask \in {"Commit", "Rollback"}, Ask(t, S, ask),
           NEW u \in Tx, NEW g \in Host
    PROVE  \A m : Waits(m, mailbox'[u][g]) =>
                    Waits(m, mailbox[u][g]) \/ (u = t /\ g \in S /\ m = ask)
<1>1. mailbox[t][g] \in Seq({"Commit", "Rollback"})
  BY DEF TypeOK, ActorTypeOK
<1>2. \A m : Waits(m, Append(mailbox[t][g], ask)) <=>
             Waits(m, mailbox[t][g]) \/ m = ask
  BY <1>1, WaitsAppend
<1>3. CASE u = t /\ g \in S
  BY <1>2, <1>3 DEF Ask, TypeOK, ActorTypeOK
<1>4. CASE ~(u = t /\ g \in S)
  BY <1>4 DEF Ask, TypeOK, ActorTypeOK
<1>. QED
  BY <1>3, <1>4

LEMMA AfterHandle ==
    ASSUME TypeOK, NEW t \in Tx, NEW h \in Host, mailbox[t][h] # <<>>,
           mailbox' = [mailbox EXCEPT ![t][h] = Tail(@)],
           NEW u \in Tx, NEW g \in Host
    PROVE  /\ Waits(Head(mailbox[t][h]), mailbox[t][h])
           /\ \A m : Waits(m, mailbox'[u][g]) => Waits(m, mailbox[u][g])
<1>1. mailbox[t][h] \in Seq({"Commit", "Rollback"})
  BY DEF TypeOK, ActorTypeOK
<1>2. \A m : Waits(m, Tail(mailbox[t][h])) => Waits(m, mailbox[t][h])
  BY <1>1, WaitsTail
<1>3. Waits(Head(mailbox[t][h]), mailbox[t][h])
  BY <1>1, WaitsHead
<1>4. CASE u = t /\ g = h
  BY <1>2, <1>3, <1>4 DEF TypeOK, ActorTypeOK
<1>5. CASE ~(u = t /\ g = h)
  BY <1>3, <1>5 DEF TypeOK, ActorTypeOK
<1>. QED
  BY <1>4, <1>5

(***************************************************************************)
(* Sets of hosts are finite.                                               *)
(***************************************************************************)
LEMMA HostSets ==
    ASSUME NEW S \in SUBSET Host
    PROVE  IsFiniteSet(S) /\ Cardinality(S) \in Nat
  BY HostAssumption, FS_Subset, FS_CardinalityType

(* The parts of IndInv for one transaction and one host. *)
LEMMA CoordParts ==
    ASSUME IndInv, NEW u \in Tx PROVE RoundInv(u) /\ ResultInv(u)
  BY DEF IndInv, CoordInv

LEMMA Parts ==
    ASSUME IndInv, NEW u \in Tx, NEW g \in Host
    PROVE  /\ CommitInv(u, g) /\ RollbackInv(u, g) /\ LifeInv(u, g)
           /\ StorageInv(u, g) /\ AckInv(u, g) /\ VoteInv(u, g)
  BY DEF IndInv, MessageInv, HostInv

LEMMA SelectHostsKeeps ==
    ASSUME IndInv, NEW t \in Tx, SelectHosts(t), UNCHANGED agentVars
    PROVE  CoordInv' /\ MessageInv' /\ HostInv'
<1>0. TypeOK
  BY DEF IndInv
<1>1. ASSUME NEW u \in Tx PROVE RoundInv(u)' /\ ResultInv(u)'
  <2>0. RoundInv(u) /\ ResultInv(u)
    BY CoordParts
  <2>1. RoundInv(u)'
    <3>1. PICK S \in SUBSET pool[t] :
            /\ Cardinality(S) = Left(t)
            /\ pool' = [pool EXCEPT ![t] = @ \ S]
            /\ asked' = [asked EXCEPT ![t] = S]
      BY DEF SelectHosts
    <3>2. Cardinality(committing[t]) \in Nat
      BY <1>0, HostSets DEF TypeOK, CoordTypeOK
    <3>3. CASE u = t
      <4>1. pool'[t] = pool[t] \ S /\ asked'[t] = S /\ phase'[t] = "voting"
        BY <1>0, <3>1 DEF SelectHosts, Goto, TypeOK, CoordTypeOK
      <4>2. committing' = committing /\ result[t] = "none" /\ result' = result
        BY <2>0, <3>3 DEF SelectHosts, ResultInv
      <4>3. Cardinality(committing[t]) + Cardinality(S) = MinDbs
        BY <3>1, <3>2, MinDbsAssumption DEF Left
      <4>. QED
        BY <2>0, <3>3, <4>1, <4>2, <4>3 DEF RoundInv, SelectHosts
    <3>4. CASE u # t
      BY <1>0, <2>0, <3>1, <3>4
         DEF RoundInv, SelectHosts, Goto, TypeOK, CoordTypeOK
    <3>. QED
      BY <3>3, <3>4
  <2>2. ResultInv(u)'
    BY <1>0, <2>0
       DEF ResultInv, SelectHosts, AskVote, Goto, Left, TypeOK, ActorTypeOK,
           CoordTypeOK
  <2>. QED
    BY <2>1, <2>2
<1>2. ASSUME NEW u \in Tx, NEW g \in Host
      PROVE  /\ CommitInv(u, g)' /\ RollbackInv(u, g)' /\ LifeInv(u, g)'
             /\ StorageInv(u, g)' /\ AckInv(u, g)' /\ VoteInv(u, g)'
  <2>0. /\ CommitInv(u, g) /\ RollbackInv(u, g) /\ LifeInv(u, g)
        /\ StorageInv(u, g) /\ AckInv(u, g) /\ VoteInv(u, g)
    BY Parts
  <2>1. CommitInv(u, g)'
    BY <1>0, <2>0
       DEF CommitInv, CommitSent, SelectHosts, AskVote, Goto, Left, actorVars,
           agentVars, coordVars, linkVars, TypeOK, CoordTypeOK
  <2>2. RollbackInv(u, g)'
    BY <1>0, <2>0
       DEF RollbackInv, RollbackSent, SelectHosts, AskVote, Goto, Left,
           actorVars, agentVars, coordVars, linkVars, TypeOK, CoordTypeOK
  <2>3. LifeInv(u, g)'
    BY <1>0, <2>0
       DEF LifeInv, SelectHosts, AskVote, Goto, Left, agentVars, TypeOK,
           ActorTypeOK, CoordTypeOK
  <2>4. AckInv(u, g)'
    BY <1>0, <2>0
       DEF AckInv, SelectHosts, AskVote, Goto, Left, agentVars, coordVars,
           linkVars, TypeOK, ActorTypeOK, CoordTypeOK
  <2>5. VoteInv(u, g)'
    BY <1>0, <2>0
       DEF VoteInv, SelectHosts, AskVote, Goto, Left, agentVars, coordVars,
           linkVars, TypeOK, ActorTypeOK
  <2>6. StorageInv(u, g)'
    BY <2>0
       DEF StorageInv, SelectHosts, AskVote, linkVars, agentVars, actorVars,
           coordVars
  <2>. QED
    BY <2>1, <2>2, <2>3, <2>4, <2>5, <2>6
<1>. QED
  BY <1>1, <1>2 DEF CoordInv, MessageInv, HostInv

LEMMA NotEnoughKeeps ==
    ASSUME IndInv, NEW t \in Tx, NotEnough(t), UNCHANGED agentVars
    PROVE  CoordInv' /\ MessageInv' /\ HostInv'
<1>0. TypeOK
  BY DEF IndInv
<1>1. ASSUME NEW u \in Tx PROVE RoundInv(u)' /\ ResultInv(u)'
  <2>0. RoundInv(u) /\ ResultInv(u)
    BY CoordParts
  <2>1. RoundInv(u)'
    BY <1>0, <2>0
       DEF RoundInv, NotEnough, Finish, StopActors, CloseByClient, Goto,
           TypeOK, ActorTypeOK, CoordTypeOK, LinkTypeOK
  <2>2. ResultInv(u)'
    BY <1>0, <2>0
       DEF ResultInv, NotEnough, Finish, StopActors, CloseByClient, Goto,
           TypeOK, ActorTypeOK, CoordTypeOK, LinkTypeOK
  <2>. QED
    BY <2>1, <2>2
<1>2. ASSUME NEW u \in Tx, NEW g \in Host
      PROVE  /\ CommitInv(u, g)' /\ RollbackInv(u, g)' /\ LifeInv(u, g)'
             /\ StorageInv(u, g)' /\ AckInv(u, g)' /\ VoteInv(u, g)'
  <2>0. /\ CommitInv(u, g) /\ RollbackInv(u, g) /\ LifeInv(u, g)
        /\ StorageInv(u, g) /\ AckInv(u, g) /\ VoteInv(u, g)
    BY Parts
  <2>1. CommitInv(u, g)'
    BY <1>0, <2>0, WaitsEmpty
       DEF CommitInv, CommitSent, NotEnough, Finish, StopActors,
           CloseByClient, Goto, agentVars, coordVars, linkVars, TypeOK,
           ActorTypeOK, CoordTypeOK
  <2>2. RollbackInv(u, g)'
    BY <1>0, <2>0, WaitsEmpty
       DEF RollbackInv, RollbackSent, NotEnough, Finish, StopActors,
           CloseByClient, Goto, agentVars, linkVars, TypeOK, ActorTypeOK,
           CoordTypeOK
  <2>3. LifeInv(u, g)'
    BY <1>0, <2>0
       DEF LifeInv, NotEnough, Finish, StopActors, CloseByClient, Goto,
           agentVars, coordVars, TypeOK, ActorTypeOK, CoordTypeOK
  <2>4. AckInv(u, g)'
    BY <1>0, <2>0, WaitsEmpty
       DEF AckInv, NotEnough, Finish, StopActors, CloseByClient, Goto,
           actorVars, agentVars, coordVars, TypeOK, CoordTypeOK, LinkTypeOK
  <2>5. VoteInv(u, g)'
    BY <1>0, <2>0, WaitsEmpty
       DEF VoteInv, NotEnough, Finish, StopActors, CloseByClient, Goto,
           actorVars, agentVars, coordVars, TypeOK, LinkTypeOK
  <2>6. StorageInv(u, g)'
    BY <2>0
       DEF StorageInv, NotEnough, Finish, StopActors, CloseByClient, linkVars,
           agentVars, actorVars, coordVars
  <2>. QED
    BY <2>1, <2>2, <2>3, <2>4, <2>5, <2>6
<1>. QED
  BY <1>1, <1>2 DEF CoordInv, MessageInv, HostInv

LEMMA CollectVotesKeeps ==
    ASSUME IndInv, NEW t \in Tx, CollectVotes(t), UNCHANGED agentVars
    PROVE  CoordInv' /\ MessageInv' /\ HostInv'
<1>0. TypeOK
  BY DEF IndInv
<1>1. ASSUME NEW u \in Tx PROVE RoundInv(u)' /\ ResultInv(u)'
  <2>0. RoundInv(u) /\ ResultInv(u)
    BY CoordParts
  <2>1. RoundInv(u)'
    <3>. DEFINE Yes == {h \in asked[t] : reply[t][h] = "VoteOk"}
    <3>1. committing' = [committing EXCEPT ![t] = @ \cup Yes]
      BY DEF CollectVotes
    <3>2. CASE u = t
      <4>1. committing[t] \in SUBSET Host /\ asked[t] \in SUBSET Host
        BY <1>0 DEF TypeOK, CoordTypeOK
      <4>2. /\ IsFiniteSet(committing[t]) /\ Cardinality(committing[t]) \in Nat
            /\ IsFiniteSet(asked[t]) /\ Cardinality(asked[t]) \in Nat
        BY <4>1, HostSets
      <4>3. IsFiniteSet(Yes) /\ Cardinality(Yes) <= Cardinality(asked[t])
        BY <4>2, FS_Subset
      <4>4. Cardinality(Yes) \in Nat
        BY <4>3, FS_CardinalityType
      <4>5. committing[t] \cap Yes = {}
        BY <2>0, <3>2 DEF RoundInv, CollectVotes
      <4>6. Cardinality(committing[t] \cup Yes) =
               Cardinality(committing[t]) + Cardinality(Yes)
        <5>1. Cardinality(committing[t] \cup Yes) =
                 Cardinality(committing[t]) + Cardinality(Yes)
                    - Cardinality(committing[t] \cap Yes)
          BY <4>2, <4>3, FS_Union
        <5>2. Cardinality(committing[t] \cap Yes) = 0
          BY <4>5, FS_EmptySet
        <5>. HIDE DEF Yes
        <5>. QED
          BY <4>2, <4>4, <5>1, <5>2
      <4>7. committing'[t] = committing[t] \cup Yes /\ phase'[t] = "selecting"
        BY <1>0, <3>1 DEF CollectVotes, Goto, TypeOK, CoordTypeOK
      <4>8. Cardinality(committing'[t]) <= MinDbs
        <5>1. Cardinality(committing[t]) + Cardinality(asked[t]) = MinDbs
          BY <2>0, <3>2 DEF RoundInv, CollectVotes
        <5>. HIDE DEF Yes
        <5>. QED
          BY <4>2, <4>3, <4>4, <4>6, <4>7, <5>1, MinDbsAssumption
      <4>9. pool' = pool /\ result' = result /\ result[t] = "none"
        BY <2>0, <3>2 DEF CollectVotes, ResultInv
      <4>. QED
        BY <2>0, <3>2, <4>7, <4>8, <4>9 DEF RoundInv, CollectVotes
    <3>3. CASE u # t
      BY <1>0, <2>0, <3>3 DEF RoundInv, CollectVotes, Goto, TypeOK, CoordTypeOK
    <3>. QED
      BY <3>2, <3>3
  <2>2. ResultInv(u)'
    BY <1>0, <2>0
       DEF ResultInv, CollectVotes, Goto, Answered, TypeOK, CoordTypeOK
  <2>. QED
    BY <2>1, <2>2
<1>2. ASSUME NEW u \in Tx, NEW g \in Host
      PROVE  /\ CommitInv(u, g)' /\ RollbackInv(u, g)' /\ LifeInv(u, g)'
             /\ StorageInv(u, g)' /\ AckInv(u, g)' /\ VoteInv(u, g)'
  <2>0. /\ CommitInv(u, g) /\ RollbackInv(u, g) /\ LifeInv(u, g)
        /\ StorageInv(u, g) /\ AckInv(u, g) /\ VoteInv(u, g)
    BY Parts
  <2>1. CommitInv(u, g)'
    BY <1>0, <2>0
       DEF CommitInv, CommitSent, CollectVotes, Goto, Answered, actorVars,
           agentVars, linkVars, TypeOK, CoordTypeOK
  <2>2. RollbackInv(u, g)'
    BY <1>0, <2>0
       DEF RollbackInv, RollbackSent, CollectVotes, Goto, Answered, actorVars,
           agentVars, coordVars, linkVars, TypeOK, CoordTypeOK
  <2>3. LifeInv(u, g)'
    BY <1>0, <2>0
       DEF LifeInv, CollectVotes, Goto, Answered, actorVars, agentVars,
           coordVars, TypeOK, CoordTypeOK
  <2>4. AckInv(u, g)'
    <3>1. ResultInv(u)
      BY CoordParts
    <3>. QED
      BY <1>0, <2>0, <3>1
         DEF AckInv, ResultInv, CollectVotes, Goto, TypeOK, CoordTypeOK,
             linkVars, agentVars, actorVars
  <2>5. VoteInv(u, g)'
    BY <1>0, <2>0
       DEF VoteInv, CollectVotes, Goto, Answered, actorVars, agentVars,
           linkVars, TypeOK, CoordTypeOK
  <2>6. StorageInv(u, g)'
    BY <2>0
       DEF StorageInv, CollectVotes, linkVars, agentVars, actorVars, coordVars
  <2>. QED
    BY <2>1, <2>2, <2>3, <2>4, <2>5, <2>6
<1>. QED
  BY <1>1, <1>2 DEF CoordInv, MessageInv, HostInv

LEMMA StartCommitKeeps ==
    ASSUME IndInv, NEW t \in Tx, StartCommit(t), UNCHANGED agentVars
    PROVE  CoordInv' /\ MessageInv' /\ HostInv'
<1>0. TypeOK
  BY DEF IndInv
<1>1. ASSUME NEW u \in Tx PROVE RoundInv(u)' /\ ResultInv(u)'
  <2>0. RoundInv(u) /\ ResultInv(u)
    BY CoordParts
  <2>1. RoundInv(u)'
    <3>1. Cardinality(committing[t]) \in Nat
      BY <1>0, HostSets DEF TypeOK, CoordTypeOK
    <3>. QED
      BY <1>0, <2>0, <3>1, MinDbsAssumption
         DEF RoundInv, ResultInv, StartCommit, Goto, TypeOK, CoordTypeOK
  <2>2. ResultInv(u)'
    BY <1>0, <2>0
       DEF ResultInv, StartCommit, Ask, Goto, TypeOK, ActorTypeOK, CoordTypeOK
  <2>. QED
    BY <2>1, <2>2
<1>2. ASSUME NEW u \in Tx, NEW g \in Host
      PROVE  /\ CommitInv(u, g)' /\ RollbackInv(u, g)' /\ LifeInv(u, g)'
             /\ StorageInv(u, g)' /\ AckInv(u, g)' /\ VoteInv(u, g)'
  <2>0. /\ CommitInv(u, g) /\ RollbackInv(u, g) /\ LifeInv(u, g)
        /\ StorageInv(u, g) /\ AckInv(u, g) /\ VoteInv(u, g)
    BY Parts
  <2>1. CommitInv(u, g)'
    <3>1. \A m : Waits(m, mailbox'[u][g]) =>
               Waits(m, mailbox[u][g]) \/ (u = t /\ g \in committing[t] /\ m = "Commit")
      BY <1>0, AfterAsk DEF StartCommit, TypeOK, CoordTypeOK
    <3>2. Cardinality(committing[t]) = MinDbs
      BY <1>0, HostSets, CoordParts, MinDbsAssumption
         DEF RoundInv, StartCommit, TypeOK, CoordTypeOK
    <3>. QED
      BY <1>0, <2>0, <3>1, <3>2
         DEF CommitInv, CommitSent, StartCommit, Goto, TypeOK, CoordTypeOK, linkVars, agentVars
  <2>2. RollbackInv(u, g)'
    <3>1. \A m : Waits(m, mailbox'[u][g]) =>
               Waits(m, mailbox[u][g]) \/ (u = t /\ g \in committing[t] /\ m = "Commit")
      BY <1>0, AfterAsk DEF StartCommit, TypeOK, CoordTypeOK
    <3>. QED
      BY <1>0, <2>0, <3>1
         DEF RollbackInv, RollbackSent, StartCommit, Goto, TypeOK, CoordTypeOK, linkVars, agentVars
  <2>3. LifeInv(u, g)'
    BY <1>0, <2>0
       DEF LifeInv, StartCommit, Ask, Goto, actorVars, agentVars, coordVars,
           TypeOK, CoordTypeOK
  <2>4. AckInv(u, g)'
    BY <1>0, <2>0
       DEF AckInv, StartCommit, Ask, Goto, agentVars, coordVars, linkVars,
           TypeOK, ActorTypeOK, CoordTypeOK
  <2>5. VoteInv(u, g)'
    BY <1>0, <2>0
       DEF VoteInv, StartCommit, Ask, Goto, agentVars, coordVars, linkVars,
           TypeOK, ActorTypeOK
  <2>6. StorageInv(u, g)'
    BY <2>0
       DEF StorageInv, StartCommit, Ask, linkVars, agentVars, actorVars,
           coordVars
  <2>. QED
    BY <2>1, <2>2, <2>3, <2>4, <2>5, <2>6
<1>. QED
  BY <1>1, <1>2 DEF CoordInv, MessageInv, HostInv

LEMMA CommitOkKeeps ==
    ASSUME IndInv, NEW t \in Tx, CommitOk(t), UNCHANGED agentVars
    PROVE  CoordInv' /\ MessageInv' /\ HostInv'
<1>0. TypeOK
  BY DEF IndInv
<1>1. ASSUME NEW u \in Tx PROVE RoundInv(u)' /\ ResultInv(u)'
  <2>0. RoundInv(u) /\ ResultInv(u)
    BY CoordParts
  <2>1. RoundInv(u)'
    BY <1>0, <2>0
       DEF RoundInv, CommitOk, AllAck, Finish, StopActors, CloseByClient,
           Goto, TypeOK, ActorTypeOK, CoordTypeOK, LinkTypeOK
  <2>2. ResultInv(u)'
    BY <1>0, <2>0
       DEF ResultInv, CommitOk, AllAck, Finish, StopActors, CloseByClient,
           Goto, TypeOK, ActorTypeOK, CoordTypeOK, LinkTypeOK
  <2>. QED
    BY <2>1, <2>2
<1>2. ASSUME NEW u \in Tx, NEW g \in Host
      PROVE  /\ CommitInv(u, g)' /\ RollbackInv(u, g)' /\ LifeInv(u, g)'
             /\ StorageInv(u, g)' /\ AckInv(u, g)' /\ VoteInv(u, g)'
  <2>0. /\ CommitInv(u, g) /\ RollbackInv(u, g) /\ LifeInv(u, g)
        /\ StorageInv(u, g) /\ AckInv(u, g) /\ VoteInv(u, g)
    BY Parts
  <2>1. CommitInv(u, g)'
    BY <1>0, <2>0, WaitsEmpty
       DEF CommitInv, CommitSent, CommitOk, AllAck, Finish, StopActors,
           CloseByClient, Goto, agentVars, coordVars, linkVars, TypeOK,
           ActorTypeOK, CoordTypeOK
  <2>2. RollbackInv(u, g)'
    BY <1>0, <2>0, WaitsEmpty
       DEF RollbackInv, RollbackSent, CommitOk, AllAck, Finish, StopActors,
           CloseByClient, Goto, agentVars, linkVars, TypeOK, ActorTypeOK,
           CoordTypeOK
  <2>3. LifeInv(u, g)'
    BY <1>0, <2>0
       DEF LifeInv, CommitOk, AllAck, Finish, StopActors, CloseByClient, Goto,
           agentVars, coordVars, TypeOK, ActorTypeOK, CoordTypeOK
  <2>4. AckInv(u, g)'
    BY <1>0, <2>0, WaitsEmpty
       DEF AckInv, CommitOk, AllAck, Finish, StopActors, CloseByClient, Goto,
           actorVars, agentVars, coordVars, TypeOK, CoordTypeOK, LinkTypeOK
  <2>5. VoteInv(u, g)'
    BY <1>0, <2>0, WaitsEmpty
       DEF VoteInv, CommitOk, AllAck, Finish, StopActors, CloseByClient, Goto,
           actorVars, agentVars, coordVars, TypeOK, LinkTypeOK
  <2>6. StorageInv(u, g)'
    BY <2>0
       DEF StorageInv, CommitOk, Finish, StopActors, CloseByClient, linkVars,
           agentVars, actorVars, coordVars
  <2>. QED
    BY <2>1, <2>2, <2>3, <2>4, <2>5, <2>6
<1>. QED
  BY <1>1, <1>2 DEF CoordInv, MessageInv, HostInv

LEMMA StartRollbackKeeps ==
    ASSUME IndInv, NEW t \in Tx, StartRollback(t), UNCHANGED agentVars
    PROVE  CoordInv' /\ MessageInv' /\ HostInv'
<1>0. TypeOK
  BY DEF IndInv
<1>1. ASSUME NEW u \in Tx PROVE RoundInv(u)' /\ ResultInv(u)'
  <2>0. RoundInv(u) /\ ResultInv(u)
    BY CoordParts
  <2>1. RoundInv(u)'
    BY <1>0, <2>0
       DEF RoundInv, StartRollback, Ask, Goto, TypeOK, ActorTypeOK,
           CoordTypeOK
  <2>2. ResultInv(u)'
    BY <1>0, <2>0
       DEF ResultInv, StartRollback, Ask, Goto, TypeOK, ActorTypeOK,
           CoordTypeOK
  <2>. QED
    BY <2>1, <2>2
<1>2. ASSUME NEW u \in Tx, NEW g \in Host
      PROVE  /\ CommitInv(u, g)' /\ RollbackInv(u, g)' /\ LifeInv(u, g)'
             /\ StorageInv(u, g)' /\ AckInv(u, g)' /\ VoteInv(u, g)'
  <2>0. /\ CommitInv(u, g) /\ RollbackInv(u, g) /\ LifeInv(u, g)
        /\ StorageInv(u, g) /\ AckInv(u, g) /\ VoteInv(u, g)
    BY Parts
  <2>1. CommitInv(u, g)'
    <3>1. \A m : Waits(m, mailbox'[u][g]) =>
               Waits(m, mailbox[u][g]) \/ (u = t /\ g \in committing[t] /\ m = "Rollback")
      BY <1>0, AfterAsk DEF StartRollback, TypeOK, CoordTypeOK
    <3>. QED
      BY <1>0, <2>0, <3>1
         DEF CommitInv, CommitSent, StartRollback, Goto, TypeOK, CoordTypeOK, linkVars, agentVars
  <2>2. RollbackInv(u, g)'
    <3>1. \A m : Waits(m, mailbox'[u][g]) =>
               Waits(m, mailbox[u][g]) \/ (u = t /\ g \in committing[t] /\ m = "Rollback")
      BY <1>0, AfterAsk DEF StartRollback, TypeOK, CoordTypeOK
    <3>2. result[t] # "Ok"
      BY CoordParts DEF ResultInv, StartRollback
    <3>. QED
      BY <1>0, <2>0, <3>1, <3>2
         DEF RollbackInv, RollbackSent, StartRollback, Goto, TypeOK, CoordTypeOK, linkVars, agentVars
  <2>3. LifeInv(u, g)'
    BY <1>0, <2>0
       DEF LifeInv, StartRollback, Ask, Goto, actorVars, agentVars, coordVars,
           TypeOK, CoordTypeOK
  <2>4. AckInv(u, g)'
    BY <1>0, <2>0
       DEF AckInv, StartRollback, Ask, Goto, agentVars, coordVars, linkVars,
           TypeOK, ActorTypeOK, CoordTypeOK
  <2>5. VoteInv(u, g)'
    BY <1>0, <2>0
       DEF VoteInv, StartRollback, Ask, Goto, agentVars, coordVars, linkVars,
           TypeOK, ActorTypeOK
  <2>6. StorageInv(u, g)'
    BY <2>0
       DEF StorageInv, StartRollback, Ask, linkVars, agentVars, actorVars,
           coordVars
  <2>. QED
    BY <2>1, <2>2, <2>3, <2>4, <2>5, <2>6
<1>. QED
  BY <1>1, <1>2 DEF CoordInv, MessageInv, HostInv

LEMMA RollbackDoneKeeps ==
    ASSUME IndInv, NEW t \in Tx, RollbackDone(t), UNCHANGED agentVars
    PROVE  CoordInv' /\ MessageInv' /\ HostInv'
<1>0. TypeOK
  BY DEF IndInv
<1>1. ASSUME NEW u \in Tx PROVE RoundInv(u)' /\ ResultInv(u)'
  <2>0. RoundInv(u) /\ ResultInv(u)
    BY CoordParts
  <2>1. RoundInv(u)'
    BY <1>0, <2>0
       DEF RoundInv, RollbackDone, Finish, StopActors, CloseByClient, Goto,
           TypeOK, ActorTypeOK, CoordTypeOK, LinkTypeOK
  <2>2. ResultInv(u)'
    BY <1>0, <2>0
       DEF ResultInv, RollbackDone, Finish, StopActors, CloseByClient, Goto,
           TypeOK, ActorTypeOK, CoordTypeOK, LinkTypeOK
  <2>. QED
    BY <2>1, <2>2
<1>2. ASSUME NEW u \in Tx, NEW g \in Host
      PROVE  /\ CommitInv(u, g)' /\ RollbackInv(u, g)' /\ LifeInv(u, g)'
             /\ StorageInv(u, g)' /\ AckInv(u, g)' /\ VoteInv(u, g)'
  <2>0. /\ CommitInv(u, g) /\ RollbackInv(u, g) /\ LifeInv(u, g)
        /\ StorageInv(u, g) /\ AckInv(u, g) /\ VoteInv(u, g)
    BY Parts
  <2>1. CommitInv(u, g)'
    BY <1>0, <2>0, WaitsEmpty
       DEF CommitInv, CommitSent, RollbackDone, Finish, StopActors,
           CloseByClient, Goto, agentVars, coordVars, linkVars, TypeOK,
           ActorTypeOK, CoordTypeOK
  <2>2. RollbackInv(u, g)'
    BY <1>0, <2>0, WaitsEmpty
       DEF RollbackInv, RollbackSent, RollbackDone, Finish, StopActors,
           CloseByClient, Goto, agentVars, linkVars, TypeOK, ActorTypeOK,
           CoordTypeOK
  <2>3. LifeInv(u, g)'
    BY <1>0, <2>0
       DEF LifeInv, RollbackDone, Finish, StopActors, CloseByClient, Goto,
           agentVars, coordVars, TypeOK, ActorTypeOK, CoordTypeOK
  <2>4. AckInv(u, g)'
    BY <1>0, <2>0, WaitsEmpty
       DEF AckInv, RollbackDone, Finish, StopActors, CloseByClient, Goto,
           actorVars, agentVars, coordVars, TypeOK, CoordTypeOK, LinkTypeOK
  <2>5. VoteInv(u, g)'
    BY <1>0, <2>0, WaitsEmpty
       DEF VoteInv, RollbackDone, Finish, StopActors, CloseByClient, Goto,
           actorVars, agentVars, coordVars, TypeOK, LinkTypeOK
  <2>6. StorageInv(u, g)'
    BY <2>0
       DEF StorageInv, RollbackDone, Finish, StopActors, CloseByClient,
           linkVars, agentVars, actorVars, coordVars
  <2>. QED
    BY <2>1, <2>2, <2>3, <2>4, <2>5, <2>6
<1>. QED
  BY <1>1, <1>2 DEF CoordInv, MessageInv, HostInv

LEMMA PostKeeps ==
    ASSUME IndInv, NEW t \in Tx, Post(t), UNCHANGED agentVars
    PROVE  CoordInv' /\ MessageInv' /\ HostInv'
<1>0. TypeOK
  BY DEF IndInv
<1>1. ASSUME NEW u \in Tx PROVE RoundInv(u)' /\ ResultInv(u)'
  <2>0. RoundInv(u) /\ ResultInv(u)
    BY CoordParts
  <2>1. RoundInv(u)'
    <3>1. Cardinality({}) = 0
      BY FS_EmptySet
    <3>2. CASE u = t
      <4>1. /\ phase'[t] = "selecting" /\ result' = result /\ committing' = committing
            /\ phase[t] = "idle"
        BY <1>0 DEF Post, Goto, TypeOK, CoordTypeOK
      <4>2. committing[t] = {} /\ result[t] # "Ok"
        BY <2>0, <3>2, <4>1, <1>0 DEF RoundInv, ResultInv, TypeOK, CoordTypeOK
      <4>. QED
        BY <3>1, <3>2, <4>1, <4>2, MinDbsAssumption DEF RoundInv
    <3>3. CASE u # t
      BY <1>0, <2>0, <3>3 DEF RoundInv, Post, Goto, TypeOK, CoordTypeOK
    <3>. QED
      BY <3>2, <3>3
  <2>2. ResultInv(u)'
    BY <1>0, <2>0 DEF ResultInv, Post, Goto, TypeOK, CoordTypeOK
  <2>. QED
    BY <2>1, <2>2
<1>2. ASSUME NEW u \in Tx, NEW g \in Host
      PROVE  /\ CommitInv(u, g)' /\ RollbackInv(u, g)' /\ LifeInv(u, g)'
             /\ StorageInv(u, g)' /\ AckInv(u, g)' /\ VoteInv(u, g)'
  <2>0. /\ CommitInv(u, g) /\ RollbackInv(u, g) /\ LifeInv(u, g)
        /\ StorageInv(u, g) /\ AckInv(u, g) /\ VoteInv(u, g)
    BY Parts
  <2>1. CommitInv(u, g)'
    BY <1>0, <2>0
       DEF CommitInv, CommitSent, Post, Goto, actorVars, agentVars, coordVars,
           linkVars, TypeOK, CoordTypeOK
  <2>2. RollbackInv(u, g)'
    BY <1>0, <2>0
       DEF RollbackInv, RollbackSent, Post, Goto, actorVars, agentVars,
           coordVars, linkVars, TypeOK, CoordTypeOK
  <2>3. LifeInv(u, g)'
    BY <1>0, <2>0
       DEF LifeInv, Post, Goto, actorVars, agentVars, TypeOK, CoordTypeOK
  <2>4. AckInv(u, g)'
    BY <1>0, <2>0
       DEF AckInv, Post, Goto, actorVars, agentVars, coordVars, linkVars,
           TypeOK, CoordTypeOK
  <2>5. StorageInv(u, g)' /\ VoteInv(u, g)'
    BY <2>0
       DEF StorageInv, VoteInv, Post, linkVars, agentVars, actorVars,
           coordVars
  <2>. QED
    BY <2>1, <2>2, <2>3, <2>4, <2>5
<1>. QED
  BY <1>1, <1>2 DEF CoordInv, MessageInv, HostInv

LEMMA RespondHttpKeeps ==
    ASSUME IndInv, NEW t \in Tx, RespondHttp(t), UNCHANGED agentVars
    PROVE  CoordInv' /\ MessageInv' /\ HostInv'
<1>0. TypeOK
  BY DEF IndInv
<1>1. ASSUME NEW u \in Tx PROVE RoundInv(u)' /\ ResultInv(u)'
  <2>0. RoundInv(u) /\ ResultInv(u)
    BY CoordParts
  <2>1. RoundInv(u)'
    BY <2>0 DEF RoundInv, RespondHttp, coordVars
  <2>2. ResultInv(u)'
    BY <1>0, <2>0 DEF ResultInv, RespondHttp, TypeOK, CoordTypeOK
  <2>. QED
    BY <2>1, <2>2
<1>2. ASSUME NEW u \in Tx, NEW g \in Host
      PROVE  /\ CommitInv(u, g)' /\ RollbackInv(u, g)' /\ LifeInv(u, g)'
             /\ StorageInv(u, g)' /\ AckInv(u, g)' /\ VoteInv(u, g)'
  <2>0. /\ CommitInv(u, g) /\ RollbackInv(u, g) /\ LifeInv(u, g)
        /\ StorageInv(u, g) /\ AckInv(u, g) /\ VoteInv(u, g)
    BY Parts
  <2>1. /\ CommitInv(u, g)' /\ RollbackInv(u, g)' /\ LifeInv(u, g)'
        /\ StorageInv(u, g)' /\ AckInv(u, g)' /\ VoteInv(u, g)'
    BY <2>0
       DEF CommitInv, RollbackInv, LifeInv, StorageInv, AckInv, VoteInv,
           CommitSent, RollbackSent, RespondHttp, linkVars, agentVars,
           actorVars, coordVars
  <2>. QED
    BY <2>1
<1>. QED
  BY <1>1, <1>2 DEF CoordInv, MessageInv, HostInv

LEMMA HttpTimeoutKeeps ==
    ASSUME IndInv, NEW t \in Tx, HttpTimeout(t), UNCHANGED agentVars
    PROVE  CoordInv' /\ MessageInv' /\ HostInv'
<1>0. TypeOK
  BY DEF IndInv
<1>1. ASSUME NEW u \in Tx PROVE RoundInv(u)' /\ ResultInv(u)'
  <2>0. RoundInv(u) /\ ResultInv(u)
    BY CoordParts
  <2>1. RoundInv(u)'
    BY <2>0 DEF RoundInv, HttpTimeout, coordVars
  <2>2. ResultInv(u)'
    BY <1>0, <2>0 DEF ResultInv, HttpTimeout, TypeOK, CoordTypeOK
  <2>. QED
    BY <2>1, <2>2
<1>2. ASSUME NEW u \in Tx, NEW g \in Host
      PROVE  /\ CommitInv(u, g)' /\ RollbackInv(u, g)' /\ LifeInv(u, g)'
             /\ StorageInv(u, g)' /\ AckInv(u, g)' /\ VoteInv(u, g)'
  <2>0. /\ CommitInv(u, g) /\ RollbackInv(u, g) /\ LifeInv(u, g)
        /\ StorageInv(u, g) /\ AckInv(u, g) /\ VoteInv(u, g)
    BY Parts
  <2>1. /\ CommitInv(u, g)' /\ RollbackInv(u, g)' /\ LifeInv(u, g)'
        /\ StorageInv(u, g)' /\ AckInv(u, g)' /\ VoteInv(u, g)'
    BY <2>0
       DEF CommitInv, RollbackInv, LifeInv, StorageInv, AckInv, VoteInv,
           CommitSent, RollbackSent, HttpTimeout, linkVars, agentVars,
           actorVars, coordVars
  <2>. QED
    BY <2>1
<1>. QED
  BY <1>1, <1>2 DEF CoordInv, MessageInv, HostInv

LEMMA ClientCrashKeeps ==
    ASSUME IndInv, NEW t \in Tx, ClientCrash(t), UNCHANGED agentVars
    PROVE  CoordInv' /\ MessageInv' /\ HostInv'
<1>0. TypeOK
  BY DEF IndInv
<1>1. ASSUME NEW u \in Tx PROVE RoundInv(u)' /\ ResultInv(u)'
  <2>0. RoundInv(u) /\ ResultInv(u)
    BY CoordParts
  <2>1. RoundInv(u)'
    BY <1>0, <2>0
       DEF RoundInv, ClientCrash, StopActors, CloseByClient, Goto, TypeOK,
           ActorTypeOK, CoordTypeOK, LinkTypeOK
  <2>2. ResultInv(u)'
    BY <1>0, <2>0
       DEF ResultInv, ClientCrash, StopActors, CloseByClient, Goto, TypeOK,
           ActorTypeOK, CoordTypeOK, LinkTypeOK
  <2>. QED
    BY <2>1, <2>2
<1>2. ASSUME NEW u \in Tx, NEW g \in Host
      PROVE  /\ CommitInv(u, g)' /\ RollbackInv(u, g)' /\ LifeInv(u, g)'
             /\ StorageInv(u, g)' /\ AckInv(u, g)' /\ VoteInv(u, g)'
  <2>0. /\ CommitInv(u, g) /\ RollbackInv(u, g) /\ LifeInv(u, g)
        /\ StorageInv(u, g) /\ AckInv(u, g) /\ VoteInv(u, g)
    BY Parts
  <2>1. CommitInv(u, g)'
    BY <1>0, <2>0, WaitsEmpty
       DEF CommitInv, CommitSent, ClientCrash, StopActors, CloseByClient,
           Goto, agentVars, coordVars, linkVars, TypeOK, ActorTypeOK,
           CoordTypeOK
  <2>2. RollbackInv(u, g)'
    BY <1>0, <2>0, WaitsEmpty
       DEF RollbackInv, RollbackSent, ClientCrash, StopActors, CloseByClient,
           Goto, agentVars, coordVars, linkVars, TypeOK, ActorTypeOK,
           CoordTypeOK
  <2>3. LifeInv(u, g)'
    BY <1>0, <2>0
       DEF LifeInv, ClientCrash, StopActors, CloseByClient, Goto, agentVars,
           coordVars, TypeOK, ActorTypeOK, CoordTypeOK
  <2>4. AckInv(u, g)'
    BY <1>0, <2>0, WaitsEmpty
       DEF AckInv, ClientCrash, StopActors, CloseByClient, Goto, actorVars,
           agentVars, coordVars, TypeOK, CoordTypeOK, LinkTypeOK
  <2>5. VoteInv(u, g)'
    BY <1>0, <2>0, WaitsEmpty
       DEF VoteInv, ClientCrash, StopActors, CloseByClient, Goto, actorVars,
           agentVars, coordVars, TypeOK, LinkTypeOK
  <2>6. StorageInv(u, g)'
    BY <2>0
       DEF StorageInv, ClientCrash, StopActors, CloseByClient, linkVars,
           agentVars, actorVars, coordVars
  <2>. QED
    BY <2>1, <2>2, <2>3, <2>4, <2>5, <2>6
<1>. QED
  BY <1>1, <1>2 DEF CoordInv, MessageInv, HostInv

LEMMA ConnectKeeps ==
    ASSUME IndInv, NEW t \in Tx, NEW h \in Host, Connect(t, h)
    PROVE  CoordInv' /\ MessageInv' /\ HostInv'
<1>0. TypeOK
  BY DEF IndInv
<1>1. CoordInv'
  BY IndInv
     DEF IndInv, CoordInv, RoundInv, ResultInv, Connect, coordVars
<1>2. ASSUME NEW u \in Tx, NEW g \in Host
      PROVE  /\ CommitInv(u, g)' /\ RollbackInv(u, g)' /\ LifeInv(u, g)'
             /\ StorageInv(u, g)' /\ AckInv(u, g)' /\ VoteInv(u, g)'
  <2>0. /\ CommitInv(u, g) /\ RollbackInv(u, g) /\ LifeInv(u, g)
        /\ StorageInv(u, g) /\ AckInv(u, g) /\ VoteInv(u, g)
    BY Parts
  <2>1. CommitInv(u, g)'
    <3>1. \A m : Waits(m, toServer'[u][g]) =>
               Waits(m, toServer[u][g]) \/ m = VOTE
      <4>1. toServer[t][h] \in Seq(Commands)
        BY <1>0 DEF TypeOK, LinkTypeOK
      <4>2. \A m : Waits(m, Append(toServer[t][h], VOTE)) <=>
                 Waits(m, toServer[t][h]) \/ m = VOTE
        BY <4>1, WaitsAppend
      <4>3. CASE u = t /\ g = h
        BY <1>0, <4>2, <4>3 DEF Connect, Connected, TypeOK, LinkTypeOK
      <4>4. CASE ~(u = t /\ g = h)
        BY <1>0, <4>4 DEF Connect, Connected, TypeOK, LinkTypeOK
      <4>. QED
        BY <4>3, <4>4
    <3>. QED
      BY <2>0, <3>1 DEF CommitInv, CommitSent, Connect, Connected, coordVars
  <2>2. RollbackInv(u, g)'
    <3>1. \A m : Waits(m, toServer'[u][g]) =>
               Waits(m, toServer[u][g]) \/ m = VOTE
      <4>1. toServer[t][h] \in Seq(Commands)
        BY <1>0 DEF TypeOK, LinkTypeOK
      <4>2. \A m : Waits(m, Append(toServer[t][h], VOTE)) <=>
                 Waits(m, toServer[t][h]) \/ m = VOTE
        BY <4>1, WaitsAppend
      <4>3. CASE u = t /\ g = h
        BY <1>0, <4>2, <4>3 DEF Connect, Connected, TypeOK, LinkTypeOK
      <4>4. CASE ~(u = t /\ g = h)
        BY <1>0, <4>4 DEF Connect, Connected, TypeOK, LinkTypeOK
      <4>. QED
        BY <4>3, <4>4
    <3>. QED
      BY <2>0, <3>1 DEF RollbackInv, RollbackSent, Connect, Connected, coordVars
  <2>3. LifeInv(u, g)'
    BY <1>0, <2>0
       DEF LifeInv, Connect, Connected, agentVars, coordVars, TypeOK,
           ActorTypeOK, AgentTypeOK
  <2>4. StorageInv(u, g)' /\ AckInv(u, g)' /\ VoteInv(u, g)'
    BY <2>0
       DEF StorageInv, AckInv, VoteInv, Connect, Connected, linkVars,
           agentVars, actorVars, coordVars
  <2>. QED
    BY <2>1, <2>2, <2>3, <2>4
<1>. QED
  BY <1>1, <1>2 DEF CoordInv, MessageInv, HostInv

LEMMA TimeoutKeeps ==
    ASSUME IndInv, NEW t \in Tx, NEW h \in Host, Timeout(t, h)
    PROVE  CoordInv' /\ MessageInv' /\ HostInv'
<1>0. TypeOK
  BY DEF IndInv
<1>1. CoordInv'
  BY IndInv
     DEF IndInv, CoordInv, RoundInv, ResultInv, Timeout, coordVars
<1>2. ASSUME NEW u \in Tx, NEW g \in Host
      PROVE  /\ CommitInv(u, g)' /\ RollbackInv(u, g)' /\ LifeInv(u, g)'
             /\ StorageInv(u, g)' /\ AckInv(u, g)' /\ VoteInv(u, g)'
  <2>0. /\ CommitInv(u, g) /\ RollbackInv(u, g) /\ LifeInv(u, g)
        /\ StorageInv(u, g) /\ AckInv(u, g) /\ VoteInv(u, g)
    BY Parts
  <2>1. AckInv(u, g)'
    BY <1>0, <2>0
       DEF AckInv, Timeout, AskTimeout, agentVars, coordVars, linkVars,
           TypeOK, ActorTypeOK
  <2>2. VoteInv(u, g)'
    BY <1>0, <2>0
       DEF VoteInv, Timeout, AskTimeout, agentVars, coordVars, linkVars,
           TypeOK, ActorTypeOK
  <2>3. /\ CommitInv(u, g)' /\ RollbackInv(u, g)' /\ LifeInv(u, g)'
        /\ StorageInv(u, g)'
    BY <2>0
       DEF CommitInv, RollbackInv, LifeInv, StorageInv, CommitSent,
           RollbackSent, Timeout, AskTimeout, linkVars, agentVars, actorVars,
           coordVars
  <2>. QED
    BY <2>1, <2>2, <2>3
<1>. QED
  BY <1>1, <1>2 DEF CoordInv, MessageInv, HostInv

LEMMA ConnectFailedKeeps ==
    ASSUME IndInv, NEW t \in Tx, NEW h \in Host, ConnectFailed(t, h),
           UNCHANGED <<agentVars, coordVars>>
    PROVE  CoordInv' /\ MessageInv' /\ HostInv'
<1>0. TypeOK
  BY DEF IndInv
<1>1. CoordInv'
  BY IndInv
     DEF IndInv, CoordInv, RoundInv, ResultInv, ConnectFailed, coordVars
<1>2. ASSUME NEW u \in Tx, NEW g \in Host
      PROVE  /\ CommitInv(u, g)' /\ RollbackInv(u, g)' /\ LifeInv(u, g)'
             /\ StorageInv(u, g)' /\ AckInv(u, g)' /\ VoteInv(u, g)'
  <2>0. /\ CommitInv(u, g) /\ RollbackInv(u, g) /\ LifeInv(u, g)
        /\ StorageInv(u, g) /\ AckInv(u, g) /\ VoteInv(u, g)
    BY Parts
  <2>1. LifeInv(u, g)'
    BY <1>0, <2>0
       DEF LifeInv, ConnectFailed, ReplyListener, agentVars, coordVars,
           TypeOK, ActorTypeOK
  <2>2. AckInv(u, g)'
    BY <1>0, <2>0
       DEF AckInv, ConnectFailed, ReplyListener, agentVars, coordVars,
           linkVars, TypeOK, ActorTypeOK
  <2>3. VoteInv(u, g)'
    BY <1>0, <2>0
       DEF VoteInv, ConnectFailed, ReplyListener, agentVars, coordVars,
           linkVars, TypeOK, ActorTypeOK
  <2>4. CommitInv(u, g)' /\ RollbackInv(u, g)' /\ StorageInv(u, g)'
    BY <2>0
       DEF CommitInv, RollbackInv, StorageInv, CommitSent, RollbackSent,
           ConnectFailed, linkVars, agentVars, actorVars, coordVars
  <2>. QED
    BY <2>1, <2>2, <2>3, <2>4
<1>. QED
  BY <1>1, <1>2 DEF CoordInv, MessageInv, HostInv

LEMMA ReceivedKeeps ==
    ASSUME IndInv, NEW t \in Tx, NEW h \in Host, Received(t, h),
           UNCHANGED <<agentVars, coordVars>>
    PROVE  CoordInv' /\ MessageInv' /\ HostInv'
<1>0. TypeOK
  BY DEF IndInv
<1>1. CoordInv'
  BY IndInv
     DEF IndInv, CoordInv, RoundInv, ResultInv, Received, coordVars
<1>2. ASSUME NEW u \in Tx, NEW g \in Host
      PROVE  /\ CommitInv(u, g)' /\ RollbackInv(u, g)' /\ LifeInv(u, g)'
             /\ StorageInv(u, g)' /\ AckInv(u, g)' /\ VoteInv(u, g)'
  <2>0. /\ CommitInv(u, g) /\ RollbackInv(u, g) /\ LifeInv(u, g)
        /\ StorageInv(u, g) /\ AckInv(u, g) /\ VoteInv(u, g)
    BY Parts
  <2>1. AckInv(u, g)'
    <3>1. /\ Head(toClient[t][h]) \in Answers
          /\ Waits(Head(toClient[t][h]), toClient[t][h])
          /\ \A m : Waits(m, toClient'[u][g]) => Waits(m, toClient[u][g])
      BY <1>0, AfterReceived
    <3>2. CASE reply'[u][g] = reply[u][g]
      BY <2>0, <3>1, <3>2 DEF AckInv, Received, agentVars, coordVars
    <3>3. CASE /\ u = t /\ g = h
               /\ reply'[u][g] = AnswerTo(Head(toClient[t][h]))
      BY <2>0, <3>1, <3>3
         DEF AckInv, RollbackInv, RollbackSent, AnswerTo, Received,
             agentVars, coordVars
    <3>. QED
      BY <1>0, <3>2, <3>3 DEF Received, ReplyListener, TypeOK, ActorTypeOK
  <2>2. VoteInv(u, g)'
    <3>1. /\ Head(toClient[t][h]) \in Answers
          /\ Waits(Head(toClient[t][h]), toClient[t][h])
          /\ \A m : Waits(m, toClient'[u][g]) => Waits(m, toClient[u][g])
      BY <1>0, AfterReceived
    <3>2. CASE reply'[u][g] = reply[u][g]
      BY <2>0, <3>1, <3>2 DEF VoteInv, Received, agentVars, coordVars
    <3>3. CASE /\ u = t /\ g = h
               /\ reply'[u][g] = AnswerTo(Head(toClient[t][h]))
      BY <2>0, <3>1, <3>3
         DEF VoteInv, AnswerTo, Received, agentVars, coordVars
    <3>. QED
      BY <1>0, <3>2, <3>3 DEF Received, ReplyListener, TypeOK, ActorTypeOK
  <2>3. /\ CommitInv(u, g)' /\ RollbackInv(u, g)' /\ LifeInv(u, g)'
        /\ StorageInv(u, g)'
    BY <2>0
       DEF CommitInv, RollbackInv, LifeInv, StorageInv, CommitSent,
           RollbackSent, Received, linkVars, agentVars, actorVars, coordVars
  <2>. QED
    BY <2>1, <2>2, <2>3
<1>. QED
  BY <1>1, <1>2 DEF CoordInv, MessageInv, HostInv

LEMMA HandleCommitKeeps ==
    ASSUME IndInv, NEW t \in Tx, NEW h \in Host, HandleCommit(t, h),
           UNCHANGED <<agentVars, coordVars>>
    PROVE  CoordInv' /\ MessageInv' /\ HostInv'
<1>0. TypeOK
  BY DEF IndInv
<1>1. CoordInv'
  BY IndInv
     DEF IndInv, CoordInv, RoundInv, ResultInv, HandleCommit, coordVars
<1>2. ASSUME NEW u \in Tx, NEW g \in Host
      PROVE  /\ CommitInv(u, g)' /\ RollbackInv(u, g)' /\ LifeInv(u, g)'
             /\ StorageInv(u, g)' /\ AckInv(u, g)' /\ VoteInv(u, g)'
  <2>0. /\ CommitInv(u, g) /\ RollbackInv(u, g) /\ LifeInv(u, g)
        /\ StorageInv(u, g) /\ AckInv(u, g) /\ VoteInv(u, g)
    BY Parts
  <2>1. CommitInv(u, g)'
    <3>1. /\ Waits(Head(mailbox[t][h]), mailbox[t][h])
          /\ \A m : Waits(m, mailbox'[u][g]) => Waits(m, mailbox[u][g])
      BY <1>0, AfterHandle DEF HandleCommit
    <3>2. \A m : Waits(m, toServer'[u][g]) =>
               Waits(m, toServer[u][g]) \/ (u = t /\ g = h /\ m = COMMIT)
      BY <1>0, AfterWrite DEF HandleCommit
    <3>. QED
      BY <2>0, <3>1, <3>2 DEF CommitInv, CommitSent, HandleCommit, agentVars, coordVars
  <2>2. RollbackInv(u, g)'
    <3>1. /\ Waits(Head(mailbox[t][h]), mailbox[t][h])
          /\ \A m : Waits(m, mailbox'[u][g]) => Waits(m, mailbox[u][g])
      BY <1>0, AfterHandle DEF HandleCommit
    <3>2. \A m : Waits(m, toServer'[u][g]) =>
               Waits(m, toServer[u][g]) \/ (u = t /\ g = h /\ m = COMMIT)
      BY <1>0, AfterWrite DEF HandleCommit
    <3>. QED
      BY <2>0, <3>1, <3>2 DEF RollbackInv, RollbackSent, HandleCommit, agentVars, coordVars
  <2>3. /\ LifeInv(u, g)' /\ StorageInv(u, g)' /\ AckInv(u, g)'
        /\ VoteInv(u, g)'
    BY <2>0
       DEF LifeInv, StorageInv, AckInv, VoteInv, HandleCommit, linkVars,
           agentVars, actorVars, coordVars
  <2>. QED
    BY <2>1, <2>2, <2>3
<1>. QED
  BY <1>1, <1>2 DEF CoordInv, MessageInv, HostInv

LEMMA HandleRollbackKeeps ==
    ASSUME IndInv, NEW t \in Tx, NEW h \in Host, HandleRollback(t, h),
           UNCHANGED <<agentVars, coordVars>>
    PROVE  CoordInv' /\ MessageInv' /\ HostInv'
<1>0. TypeOK
  BY DEF IndInv
<1>1. CoordInv'
  BY IndInv
     DEF IndInv, CoordInv, RoundInv, ResultInv, HandleRollback, coordVars
<1>2. ASSUME NEW u \in Tx, NEW g \in Host
      PROVE  /\ CommitInv(u, g)' /\ RollbackInv(u, g)' /\ LifeInv(u, g)'
             /\ StorageInv(u, g)' /\ AckInv(u, g)' /\ VoteInv(u, g)'
  <2>0. /\ CommitInv(u, g) /\ RollbackInv(u, g) /\ LifeInv(u, g)
        /\ StorageInv(u, g) /\ AckInv(u, g) /\ VoteInv(u, g)
    BY Parts
  <2>1. CommitInv(u, g)'
    <3>1. /\ Waits(Head(mailbox[t][h]), mailbox[t][h])
          /\ \A m : Waits(m, mailbox'[u][g]) => Waits(m, mailbox[u][g])
      BY <1>0, AfterHandle DEF HandleRollback
    <3>2. \A m : Waits(m, toServer'[u][g]) =>
               Waits(m, toServer[u][g]) \/ (u = t /\ g = h /\ m = ROLLBACK)
      BY <1>0, AfterWrite DEF HandleRollback
    <3>. QED
      BY <2>0, <3>1, <3>2 DEF CommitInv, CommitSent, HandleRollback, agentVars, coordVars
  <2>2. RollbackInv(u, g)'
    <3>1. /\ Waits(Head(mailbox[t][h]), mailbox[t][h])
          /\ \A m : Waits(m, mailbox'[u][g]) => Waits(m, mailbox[u][g])
      BY <1>0, AfterHandle DEF HandleRollback
    <3>2. \A m : Waits(m, toServer'[u][g]) =>
               Waits(m, toServer[u][g]) \/ (u = t /\ g = h /\ m = ROLLBACK)
      BY <1>0, AfterWrite DEF HandleRollback
    <3>. QED
      BY <2>0, <3>1, <3>2 DEF RollbackInv, RollbackSent, HandleRollback, agentVars, coordVars
  <2>3. AckInv(u, g)'
    <3>1. Waits("Rollback", mailbox[t][h])
      BY <1>0, AfterHandle DEF HandleRollback
    <3>2. RollbackInv(t, h)
      BY Parts
    <3>3. phase[t] # "committing"
      BY <3>1, <3>2 DEF RollbackInv, RollbackSent
    <3>. QED
      BY <1>0, <2>0, <3>3
         DEF AckInv, HandleRollback, ReplyListener, TypeOK, ActorTypeOK,
             agentVars, coordVars
  <2>4. VoteInv(u, g)'
    BY <1>0, <2>0
       DEF VoteInv, HandleRollback, WriteCommand, ReplyListener, agentVars,
           coordVars, linkVars, TypeOK, ActorTypeOK
  <2>5. LifeInv(u, g)' /\ StorageInv(u, g)'
    BY <2>0
       DEF LifeInv, StorageInv, HandleRollback, linkVars, agentVars,
           actorVars, coordVars
  <2>. QED
    BY <2>1, <2>2, <2>3, <2>4, <2>5
<1>. QED
  BY <1>1, <1>2 DEF CoordInv, MessageInv, HostInv

LEMMA ReadVoteKeeps ==
    ASSUME IndInv, NEW t \in Tx, NEW h \in Host, ReadVote(t, h),
           UNCHANGED <<actorVars, coordVars>>
    PROVE  CoordInv' /\ MessageInv' /\ HostInv'
<1>0. TypeOK
  BY DEF IndInv
<1>1. CoordInv'
  BY IndInv
     DEF IndInv, CoordInv, RoundInv, ResultInv, ReadVote, coordVars
<1>2. ASSUME NEW u \in Tx, NEW g \in Host
      PROVE  /\ CommitInv(u, g)' /\ RollbackInv(u, g)' /\ LifeInv(u, g)'
             /\ StorageInv(u, g)' /\ AckInv(u, g)' /\ VoteInv(u, g)'
  <2>0. /\ CommitInv(u, g) /\ RollbackInv(u, g) /\ LifeInv(u, g)
        /\ StorageInv(u, g) /\ AckInv(u, g) /\ VoteInv(u, g)
    BY Parts
  <2>1. CommitInv(u, g)'
    BY <1>0, <2>0, WaitsTail, WaitsAppend
       DEF CommitInv, CommitSent, ReadVote, Reads, Consume, Respond,
           actorVars, agentVars, coordVars, TypeOK, LinkTypeOK
  <2>2. RollbackInv(u, g)'
    BY <1>0, <2>0, WaitsTail, WaitsAppend
       DEF RollbackInv, RollbackSent, ReadVote, Reads, Consume, Respond,
           actorVars, agentVars, coordVars, TypeOK, LinkTypeOK
  <2>3. AckInv(u, g)'
    <3>1. \A m : Waits(m, toClient'[u][g]) =>
               Waits(m, toClient[u][g]) \/ (u = t /\ g = h /\ m = VOTE_OK)
      BY <1>0, AfterRespond DEF ReadVote
    <3>. QED
      BY <1>0, <2>0, <3>1
         DEF AckInv, LifeInv, ReadVote, TypeOK, AgentTypeOK, actorVars, coordVars
  <2>4. VoteInv(u, g)'
    <3>1. \A m : Waits(m, toClient'[u][g]) =>
               Waits(m, toClient[u][g]) \/ (u = t /\ g = h /\ m = VOTE_OK)
      BY <1>0, AfterRespond DEF ReadVote
    <3>. QED
      BY <1>0, <2>0, <3>1
         DEF VoteInv, ReadVote, TypeOK, AgentTypeOK, actorVars, coordVars
  <2>5. LifeInv(u, g)' /\ StorageInv(u, g)'
    BY <2>0
       DEF LifeInv, StorageInv, ReadVote, linkVars, agentVars, actorVars,
           coordVars
  <2>. QED
    BY <2>1, <2>2, <2>3, <2>4, <2>5
<1>. QED
  BY <1>1, <1>2 DEF CoordInv, MessageInv, HostInv

LEMMA ReadCommitKeeps ==
    ASSUME IndInv, NEW t \in Tx, NEW h \in Host, ReadCommit(t, h),
           UNCHANGED <<actorVars, coordVars>>
    PROVE  CoordInv' /\ MessageInv' /\ HostInv'
<1>0. TypeOK
  BY DEF IndInv
<1>1. CoordInv'
  BY IndInv
     DEF IndInv, CoordInv, RoundInv, ResultInv, ReadCommit, coordVars
<1>2. ASSUME NEW u \in Tx, NEW g \in Host
      PROVE  /\ CommitInv(u, g)' /\ RollbackInv(u, g)' /\ LifeInv(u, g)'
             /\ StorageInv(u, g)' /\ AckInv(u, g)' /\ VoteInv(u, g)'
  <2>0. /\ CommitInv(u, g) /\ RollbackInv(u, g) /\ LifeInv(u, g)
        /\ StorageInv(u, g) /\ AckInv(u, g) /\ VoteInv(u, g)
    BY Parts
  <2>1. CommitInv(u, g)'
    <3>1. /\ Waits(COMMIT, toServer[t][h])
          /\ \A m : Waits(m, toServer'[u][g]) => Waits(m, toServer[u][g])
      BY <1>0, AfterRead DEF ReadCommit
    <3>. QED
      BY <1>0, <2>0, <3>1
         DEF CommitInv, CommitSent, ReadCommit, TypeOK, AgentTypeOK, actorVars, coordVars
  <2>2. RollbackInv(u, g)'
    BY <1>0, <2>0, WaitsTail, WaitsAppend
       DEF RollbackInv, RollbackSent, ReadCommit, Reads, Consume, actorVars,
           agentVars, coordVars, TypeOK, LinkTypeOK
  <2>3. LifeInv(u, g)'
    BY <1>0, <2>0
       DEF LifeInv, ReadCommit, Reads, Consume, actorVars, agentVars,
           coordVars, TypeOK, AgentTypeOK
  <2>4. StorageInv(u, g)'
    BY <1>0, <2>0
       DEF StorageInv, ReadCommit, Reads, Consume, agentVars, TypeOK,
           AgentTypeOK
  <2>5. AckInv(u, g)'
    BY <1>0, <2>0
       DEF AckInv, LifeInv, ReadCommit, Reads, TypeOK, AgentTypeOK, actorVars,
           coordVars
  <2>6. VoteInv(u, g)'
    BY <2>0
       DEF VoteInv, ReadCommit, linkVars, agentVars, actorVars, coordVars
  <2>. QED
    BY <2>1, <2>2, <2>3, <2>4, <2>5, <2>6
<1>. QED
  BY <1>1, <1>2 DEF CoordInv, MessageInv, HostInv

LEMMA ReadRollbackKeeps ==
    ASSUME IndInv, NEW t \in Tx, NEW h \in Host, ReadRollback(t, h),
           UNCHANGED <<actorVars, coordVars>>
    PROVE  CoordInv' /\ MessageInv' /\ HostInv'
<1>0. TypeOK
  BY DEF IndInv
<1>1. CoordInv'
  BY IndInv
     DEF IndInv, CoordInv, RoundInv, ResultInv, ReadRollback, coordVars
<1>2. ASSUME NEW u \in Tx, NEW g \in Host
      PROVE  /\ CommitInv(u, g)' /\ RollbackInv(u, g)' /\ LifeInv(u, g)'
             /\ StorageInv(u, g)' /\ AckInv(u, g)' /\ VoteInv(u, g)'
  <2>0. /\ CommitInv(u, g) /\ RollbackInv(u, g) /\ LifeInv(u, g)
        /\ StorageInv(u, g) /\ AckInv(u, g) /\ VoteInv(u, g)
    BY Parts
  <2>1. CommitInv(u, g)'
    BY <1>0, <2>0, WaitsTail, WaitsAppend
       DEF CommitInv, CommitSent, ReadRollback, Reads, Consume, actorVars,
           agentVars, coordVars, TypeOK, LinkTypeOK
  <2>2. RollbackInv(u, g)'
    <3>1. /\ Waits(ROLLBACK, toServer[t][h])
          /\ \A m : Waits(m, toServer'[u][g]) => Waits(m, toServer[u][g])
      BY <1>0, AfterRead DEF ReadRollback
    <3>. QED
      BY <1>0, <2>0, <3>1
         DEF RollbackInv, RollbackSent, ReadRollback, TypeOK, AgentTypeOK, actorVars, coordVars
  <2>3. LifeInv(u, g)'
    BY <1>0, <2>0
       DEF LifeInv, ReadRollback, Reads, Consume, actorVars, agentVars,
           coordVars, TypeOK, AgentTypeOK
  <2>4. StorageInv(u, g)'
    BY <1>0, <2>0
       DEF StorageInv, ReadRollback, Reads, Consume, agentVars, TypeOK,
           AgentTypeOK
  <2>5. AckInv(u, g)'
    BY <1>0, <2>0
       DEF AckInv, LifeInv, ReadRollback, Reads, TypeOK, AgentTypeOK, actorVars,
           coordVars
  <2>6. VoteInv(u, g)'
    BY <2>0
       DEF VoteInv, ReadRollback, linkVars, agentVars, actorVars, coordVars
  <2>. QED
    BY <2>1, <2>2, <2>3, <2>4, <2>5, <2>6
<1>. QED
  BY <1>1, <1>2 DEF CoordInv, MessageInv, HostInv

LEMMA InsertDocumentKeeps ==
    ASSUME IndInv, NEW t \in Tx, NEW h \in Host, InsertDocument(t, h),
           UNCHANGED <<actorVars, coordVars>>
    PROVE  CoordInv' /\ MessageInv' /\ HostInv'
<1>0. TypeOK
  BY DEF IndInv
<1>1. CoordInv'
  BY IndInv
     DEF IndInv, CoordInv, RoundInv, ResultInv, InsertDocument, coordVars
<1>2. ASSUME NEW u \in Tx, NEW g \in Host
      PROVE  /\ CommitInv(u, g)' /\ RollbackInv(u, g)' /\ LifeInv(u, g)'
             /\ StorageInv(u, g)' /\ AckInv(u, g)' /\ VoteInv(u, g)'
  <2>0. /\ CommitInv(u, g) /\ RollbackInv(u, g) /\ LifeInv(u, g)
        /\ StorageInv(u, g) /\ AckInv(u, g) /\ VoteInv(u, g)
    BY Parts
  <2>1. StorageInv(u, g)'
    <3>1. CASE u = t /\ g = h
      <4>1. /\ inserted'[t][h] = inserted[t][h] + 1
            /\ votes'[h] = votes[h] \cup {<<t, inserted[t][h] + 1>>}
            /\ inserted[t][h] \in 0..NDocs
        BY <1>0 DEF InsertDocument, TypeOK, AgentTypeOK
      <4>2. ins'[t][h] = "running" /\ del' = del
        BY DEF InsertDocument
      <4>. QED
        BY <2>0, <3>1, <4>1, <4>2, NDocsAssumption DEF StorageInv
    <3>2. CASE g = h /\ u # t
      BY <1>0, <2>0, <3>2 DEF StorageInv, InsertDocument, TypeOK, AgentTypeOK
    <3>3. CASE g # h
      BY <1>0, <2>0, <3>3 DEF StorageInv, InsertDocument, TypeOK, AgentTypeOK
    <3>. QED
      BY <3>1, <3>2, <3>3
  <2>2. /\ CommitInv(u, g)' /\ RollbackInv(u, g)' /\ LifeInv(u, g)'
        /\ AckInv(u, g)' /\ VoteInv(u, g)'
    BY <2>0
       DEF CommitInv, RollbackInv, LifeInv, AckInv, VoteInv, CommitSent,
           RollbackSent, InsertDocument, linkVars, agentVars, actorVars,
           coordVars
  <2>. QED
    BY <2>1, <2>2
<1>. QED
  BY <1>1, <1>2 DEF CoordInv, MessageInv, HostInv

LEMMA InsertDoneKeeps ==
    ASSUME IndInv, NEW t \in Tx, NEW h \in Host, InsertDone(t, h),
           UNCHANGED <<actorVars, coordVars>>
    PROVE  CoordInv' /\ MessageInv' /\ HostInv'
<1>0. TypeOK
  BY DEF IndInv
<1>1. CoordInv'
  BY IndInv
     DEF IndInv, CoordInv, RoundInv, ResultInv, InsertDone, coordVars
<1>2. ASSUME NEW u \in Tx, NEW g \in Host
      PROVE  /\ CommitInv(u, g)' /\ RollbackInv(u, g)' /\ LifeInv(u, g)'
             /\ StorageInv(u, g)' /\ AckInv(u, g)' /\ VoteInv(u, g)'
  <2>0. /\ CommitInv(u, g) /\ RollbackInv(u, g) /\ LifeInv(u, g)
        /\ StorageInv(u, g) /\ AckInv(u, g) /\ VoteInv(u, g)
    BY Parts
  <2>1. CommitInv(u, g)'
    BY <1>0, <2>0, WaitsEmpty
       DEF CommitInv, CommitSent, InsertDone, Respond, StopAgent,
           CloseByServer, actorVars, coordVars, TypeOK, AgentTypeOK,
           LinkTypeOK
  <2>2. RollbackInv(u, g)'
    BY <1>0, <2>0, WaitsEmpty
       DEF RollbackInv, RollbackSent, InsertDone, Respond, StopAgent,
           CloseByServer, actorVars, agentVars, coordVars, TypeOK, LinkTypeOK
  <2>3. LifeInv(u, g)'
    BY <1>0, <2>0
       DEF LifeInv, InsertDone, Respond, StopAgent, CloseByServer, actorVars,
           agentVars, coordVars, TypeOK, AgentTypeOK
  <2>4. StorageInv(u, g)'
    BY <1>0, <2>0
       DEF StorageInv, InsertDone, Respond, StopAgent, CloseByServer,
           agentVars, TypeOK, AgentTypeOK
  <2>5. AckInv(u, g)'
    <3>1. \A m : Waits(m, toClient'[u][g]) =>
               Waits(m, toClient[u][g]) \/ (u = t /\ g = h /\ m = ACK)
      BY <1>0, AfterRespond DEF InsertDone
    <3>. QED
      BY <1>0, <2>0, <3>1
         DEF AckInv, LifeInv, InsertDone, TypeOK, AgentTypeOK, actorVars, coordVars
  <2>6. VoteInv(u, g)'
    <3>1. \A m : Waits(m, toClient'[u][g]) =>
               Waits(m, toClient[u][g]) \/ (u = t /\ g = h /\ m = ACK)
      BY <1>0, AfterRespond DEF InsertDone
    <3>. QED
      BY <1>0, <2>0, <3>1
         DEF VoteInv, InsertDone, TypeOK, AgentTypeOK, actorVars, coordVars
  <2>. QED
    BY <2>1, <2>2, <2>3, <2>4, <2>5, <2>6
<1>. QED
  BY <1>1, <1>2 DEF CoordInv, MessageInv, HostInv

LEMMA DeleteDoneKeeps ==
    ASSUME IndInv, NEW t \in Tx, NEW h \in Host, DeleteDone(t, h),
           UNCHANGED <<actorVars, coordVars>>
    PROVE  CoordInv' /\ MessageInv' /\ HostInv'
<1>0. TypeOK
  BY DEF IndInv
<1>1. CoordInv'
  BY IndInv
     DEF IndInv, CoordInv, RoundInv, ResultInv, DeleteDone, coordVars
<1>2. ASSUME NEW u \in Tx, NEW g \in Host
      PROVE  /\ CommitInv(u, g)' /\ RollbackInv(u, g)' /\ LifeInv(u, g)'
             /\ StorageInv(u, g)' /\ AckInv(u, g)' /\ VoteInv(u, g)'
  <2>0. /\ CommitInv(u, g) /\ RollbackInv(u, g) /\ LifeInv(u, g)
        /\ StorageInv(u, g) /\ AckInv(u, g) /\ VoteInv(u, g)
    BY Parts
  <2>1. CommitInv(u, g)'
    BY <1>0, <2>0, WaitsEmpty
       DEF CommitInv, CommitSent, DeleteDone, Respond, StopAgent,
           CloseByServer, actorVars, agentVars, coordVars, TypeOK, LinkTypeOK
  <2>2. RollbackInv(u, g)'
    BY <1>0, <2>0, WaitsEmpty
       DEF RollbackInv, RollbackSent, DeleteDone, Respond, StopAgent,
           CloseByServer, actorVars, coordVars, TypeOK, AgentTypeOK,
           LinkTypeOK
  <2>3. LifeInv(u, g)'
    BY <1>0, <2>0
       DEF LifeInv, DeleteDone, Respond, StopAgent, CloseByServer, actorVars,
           agentVars, coordVars, TypeOK, AgentTypeOK
  <2>4. StorageInv(u, g)'
    BY <1>0, <2>0
       DEF StorageInv, DeleteDone, Respond, StopAgent, CloseByServer,
           agentVars, TypeOK, AgentTypeOK
  <2>5. AckInv(u, g)'
    <3>1. \A m : Waits(m, toClient'[u][g]) =>
               Waits(m, toClient[u][g]) \/ (u = t /\ g = h /\ m = ACK)
      BY <1>0, AfterRespond DEF DeleteDone
    <3>. QED
      BY <1>0, <2>0, <3>1
         DEF AckInv, LifeInv, DeleteDone, TypeOK, AgentTypeOK, actorVars, coordVars
  <2>6. VoteInv(u, g)'
    <3>1. \A m : Waits(m, toClient'[u][g]) =>
               Waits(m, toClient[u][g]) \/ (u = t /\ g = h /\ m = ACK)
      BY <1>0, AfterRespond DEF DeleteDone
    <3>. QED
      BY <1>0, <2>0, <3>1
         DEF VoteInv, DeleteDone, TypeOK, AgentTypeOK, actorVars, coordVars
  <2>. QED
    BY <2>1, <2>2, <2>3, <2>4, <2>5, <2>6
<1>. QED
  BY <1>1, <1>2 DEF CoordInv, MessageInv, HostInv

LEMMA PeerClosedKeeps ==
    ASSUME IndInv, NEW t \in Tx, NEW h \in Host, PeerClosed(t, h),
           UNCHANGED <<actorVars, coordVars>>
    PROVE  CoordInv' /\ MessageInv' /\ HostInv'
<1>0. TypeOK
  BY DEF IndInv
<1>1. CoordInv'
  BY IndInv
     DEF IndInv, CoordInv, RoundInv, ResultInv, PeerClosed, coordVars
<1>2. ASSUME NEW u \in Tx, NEW g \in Host
      PROVE  /\ CommitInv(u, g)' /\ RollbackInv(u, g)' /\ LifeInv(u, g)'
             /\ StorageInv(u, g)' /\ AckInv(u, g)' /\ VoteInv(u, g)'
  <2>0. /\ CommitInv(u, g) /\ RollbackInv(u, g) /\ LifeInv(u, g)
        /\ StorageInv(u, g) /\ AckInv(u, g) /\ VoteInv(u, g)
    BY Parts
  <2>1. CommitInv(u, g)'
    BY <1>0, <2>0, WaitsEmpty
       DEF CommitInv, CommitSent, PeerClosed, StopAgent, CloseByServer,
           actorVars, agentVars, coordVars, TypeOK, LinkTypeOK
  <2>2. RollbackInv(u, g)'
    BY <1>0, <2>0, WaitsEmpty
       DEF RollbackInv, RollbackSent, PeerClosed, StopAgent, CloseByServer,
           actorVars, agentVars, coordVars, TypeOK, LinkTypeOK
  <2>3. LifeInv(u, g)'
    BY <1>0, <2>0
       DEF LifeInv, PeerClosed, StopAgent, CloseByServer, actorVars,
           agentVars, coordVars, TypeOK, AgentTypeOK
  <2>4. StorageInv(u, g)' /\ AckInv(u, g)' /\ VoteInv(u, g)'
    BY <2>0
       DEF StorageInv, AckInv, VoteInv, PeerClosed, StopAgent, CloseByServer,
           linkVars, agentVars, actorVars, coordVars
  <2>. QED
    BY <2>1, <2>2, <2>3, <2>4
<1>. QED
  BY <1>1, <1>2 DEF CoordInv, MessageInv, HostInv

LEMMA ErrorClosedKeeps ==
    ASSUME IndInv, NEW t \in Tx, NEW h \in Host, ErrorClosed(t, h),
           UNCHANGED <<actorVars, coordVars>>
    PROVE  CoordInv' /\ MessageInv' /\ HostInv'
<1>0. TypeOK
  BY DEF IndInv
<1>1. CoordInv'
  BY IndInv
     DEF IndInv, CoordInv, RoundInv, ResultInv, ErrorClosed, coordVars
<1>2. ASSUME NEW u \in Tx, NEW g \in Host
      PROVE  /\ CommitInv(u, g)' /\ RollbackInv(u, g)' /\ LifeInv(u, g)'
             /\ StorageInv(u, g)' /\ AckInv(u, g)' /\ VoteInv(u, g)'
  <2>0. /\ CommitInv(u, g) /\ RollbackInv(u, g) /\ LifeInv(u, g)
        /\ StorageInv(u, g) /\ AckInv(u, g) /\ VoteInv(u, g)
    BY Parts
  <2>1. CommitInv(u, g)'
    BY <1>0, <2>0, WaitsEmpty
       DEF CommitInv, CommitSent, ErrorClosed, CloseByServer,
           actorVars, agentVars, coordVars, TypeOK, LinkTypeOK
  <2>2. RollbackInv(u, g)'
    BY <1>0, <2>0, WaitsEmpty
       DEF RollbackInv, RollbackSent, ErrorClosed, CloseByServer,
           actorVars, agentVars, coordVars, TypeOK, LinkTypeOK
  <2>3. LifeInv(u, g)'
    BY <2>0 DEF LifeInv, ErrorClosed, actorVars, agentVars, coordVars
  <2>4. StorageInv(u, g)' /\ AckInv(u, g)' /\ VoteInv(u, g)'
    BY <2>0
       DEF StorageInv, AckInv, VoteInv, ErrorClosed, agentVars, actorVars, coordVars
  <2>. QED
    BY <2>1, <2>2, <2>3, <2>4
<1>. QED
  BY <1>1, <1>2 DEF CoordInv, MessageInv, HostInv

LEMMA DropSplitVoteKeeps ==
    ASSUME IndInv, NEW t \in Tx, NEW h \in Host, DropSplitVote(t, h),
           UNCHANGED <<actorVars, coordVars>>
    PROVE  CoordInv' /\ MessageInv' /\ HostInv'
<1>0. TypeOK
  BY DEF IndInv
<1>1. CoordInv'
  BY IndInv
     DEF IndInv, CoordInv, RoundInv, ResultInv, DropSplitVote, coordVars
<1>2. ASSUME NEW u \in Tx, NEW g \in Host
      PROVE  /\ CommitInv(u, g)' /\ RollbackInv(u, g)' /\ LifeInv(u, g)'
             /\ StorageInv(u, g)' /\ AckInv(u, g)' /\ VoteInv(u, g)'
  <2>0. /\ CommitInv(u, g) /\ RollbackInv(u, g) /\ LifeInv(u, g)
        /\ StorageInv(u, g) /\ AckInv(u, g) /\ VoteInv(u, g)
    BY Parts
  <2>1. CommitInv(u, g)'
    BY <1>0, <2>0, WaitsTail, WaitsAppend
       DEF CommitInv, CommitSent, DropSplitVote, Reads, Consume, actorVars,
           agentVars, coordVars, TypeOK, LinkTypeOK
  <2>2. RollbackInv(u, g)'
    BY <1>0, <2>0, WaitsTail, WaitsAppend
       DEF RollbackInv, RollbackSent, DropSplitVote, Reads, Consume,
           actorVars, agentVars, coordVars, TypeOK, LinkTypeOK
  <2>3. /\ LifeInv(u, g)' /\ StorageInv(u, g)' /\ AckInv(u, g)'
        /\ VoteInv(u, g)'
    BY <2>0
       DEF LifeInv, StorageInv, AckInv, VoteInv, DropSplitVote, linkVars,
           agentVars, actorVars, coordVars
  <2>. QED
    BY <2>1, <2>2, <2>3
<1>. QED
  BY <1>1, <1>2 DEF CoordInv, MessageInv, HostInv

LEMMA DropJoinedCommandsKeeps ==
    ASSUME IndInv, NEW t \in Tx, NEW h \in Host, DropJoinedCommands(t, h),
           UNCHANGED <<actorVars, coordVars>>
    PROVE  CoordInv' /\ MessageInv' /\ HostInv'
<1>0. TypeOK
  BY DEF IndInv
<1>1. CoordInv'
  BY IndInv
     DEF IndInv, CoordInv, RoundInv, ResultInv, DropJoinedCommands, coordVars
<1>2. ASSUME NEW u \in Tx, NEW g \in Host
      PROVE  /\ CommitInv(u, g)' /\ RollbackInv(u, g)' /\ LifeInv(u, g)'
             /\ StorageInv(u, g)' /\ AckInv(u, g)' /\ VoteInv(u, g)'
  <2>0. /\ CommitInv(u, g) /\ RollbackInv(u, g) /\ LifeInv(u, g)
        /\ StorageInv(u, g) /\ AckInv(u, g) /\ VoteInv(u, g)
    BY Parts
  <2>1. CommitInv(u, g)'
    BY <1>0, <2>0, WaitsEmpty
       DEF CommitInv, CommitSent, DropJoinedCommands, Reads, actorVars,
           agentVars, coordVars, TypeOK, LinkTypeOK
  <2>2. RollbackInv(u, g)'
    BY <1>0, <2>0, WaitsEmpty
       DEF RollbackInv, RollbackSent, DropJoinedCommands, Reads, actorVars,
           agentVars, coordVars, TypeOK, LinkTypeOK
  <2>3. /\ LifeInv(u, g)' /\ StorageInv(u, g)' /\ AckInv(u, g)'
        /\ VoteInv(u, g)'
    BY <2>0
       DEF LifeInv, StorageInv, AckInv, VoteInv, DropJoinedCommands, linkVars,
           agentVars, actorVars, coordVars
  <2>. QED
    BY <2>1, <2>2, <2>3
<1>. QED
  BY <1>1, <1>2 DEF CoordInv, MessageInv, HostInv

LEMMA InsertFailedKeeps ==
    ASSUME IndInv, NEW t \in Tx, NEW h \in Host, InsertFailed(t, h),
           UNCHANGED <<actorVars, coordVars>>
    PROVE  CoordInv' /\ MessageInv' /\ HostInv'
<1>0. TypeOK
  BY DEF IndInv
<1>1. CoordInv'
  BY IndInv
     DEF IndInv, CoordInv, RoundInv, ResultInv, InsertFailed, coordVars
<1>2. ASSUME NEW u \in Tx, NEW g \in Host
      PROVE  /\ CommitInv(u, g)' /\ RollbackInv(u, g)' /\ LifeInv(u, g)'
             /\ StorageInv(u, g)' /\ AckInv(u, g)' /\ VoteInv(u, g)'
  <2>0. /\ CommitInv(u, g) /\ RollbackInv(u, g) /\ LifeInv(u, g)
        /\ StorageInv(u, g) /\ AckInv(u, g) /\ VoteInv(u, g)
    BY Parts
  <2>1. CommitInv(u, g)'
    BY <1>0, <2>0, WaitsEmpty
       DEF CommitInv, CommitSent, InsertFailed, StopAgent, CloseByServer,
           actorVars, coordVars, TypeOK, AgentTypeOK, LinkTypeOK
  <2>2. RollbackInv(u, g)'
    BY <1>0, <2>0, WaitsEmpty
       DEF RollbackInv, RollbackSent, InsertFailed, StopAgent, CloseByServer,
           actorVars, agentVars, coordVars, TypeOK, LinkTypeOK
  <2>3. LifeInv(u, g)'
    BY <1>0, <2>0
       DEF LifeInv, InsertFailed, StopAgent, CloseByServer, actorVars,
           agentVars, coordVars, TypeOK, AgentTypeOK
  <2>4. StorageInv(u, g)'
    BY <1>0, <2>0
       DEF StorageInv, InsertFailed, StopAgent, CloseByServer, agentVars,
           TypeOK, AgentTypeOK
  <2>5. AckInv(u, g)'
    BY <1>0, <2>0
       DEF AckInv, InsertFailed, StopAgent, CloseByServer, actorVars,
           agentVars, coordVars, linkVars, TypeOK, AgentTypeOK
  <2>6. VoteInv(u, g)'
    BY <2>0
       DEF VoteInv, InsertFailed, StopAgent, CloseByServer, linkVars,
           agentVars, actorVars, coordVars
  <2>. QED
    BY <2>1, <2>2, <2>3, <2>4, <2>5, <2>6
<1>. QED
  BY <1>1, <1>2 DEF CoordInv, MessageInv, HostInv

LEMMA DeleteFailedKeeps ==
    ASSUME IndInv, NEW t \in Tx, NEW h \in Host, DeleteFailed(t, h),
           UNCHANGED <<actorVars, coordVars>>
    PROVE  CoordInv' /\ MessageInv' /\ HostInv'
<1>0. TypeOK
  BY DEF IndInv
<1>1. CoordInv'
  BY IndInv
     DEF IndInv, CoordInv, RoundInv, ResultInv, DeleteFailed, coordVars
<1>2. ASSUME NEW u \in Tx, NEW g \in Host
      PROVE  /\ CommitInv(u, g)' /\ RollbackInv(u, g)' /\ LifeInv(u, g)'
             /\ StorageInv(u, g)' /\ AckInv(u, g)' /\ VoteInv(u, g)'
  <2>0. /\ CommitInv(u, g) /\ RollbackInv(u, g) /\ LifeInv(u, g)
        /\ StorageInv(u, g) /\ AckInv(u, g) /\ VoteInv(u, g)
    BY Parts
  <2>1. CommitInv(u, g)'
    BY <1>0, <2>0, WaitsEmpty
       DEF CommitInv, CommitSent, DeleteFailed, StopAgent, CloseByServer,
           actorVars, agentVars, coordVars, TypeOK, LinkTypeOK
  <2>2. RollbackInv(u, g)'
    BY <1>0, <2>0, WaitsEmpty
       DEF RollbackInv, RollbackSent, DeleteFailed, StopAgent, CloseByServer,
           actorVars, coordVars, TypeOK, AgentTypeOK, LinkTypeOK
  <2>3. LifeInv(u, g)'
    BY <1>0, <2>0
       DEF LifeInv, DeleteFailed, StopAgent, CloseByServer, actorVars,
           agentVars, coordVars, TypeOK, AgentTypeOK
  <2>4. StorageInv(u, g)'
    BY <1>0, <2>0
       DEF StorageInv, DeleteFailed, StopAgent, CloseByServer, agentVars,
           TypeOK, AgentTypeOK
  <2>5. AckInv(u, g)'
    BY <1>0, <2>0
       DEF AckInv, DeleteFailed, StopAgent, CloseByServer, actorVars,
           agentVars, coordVars, linkVars, TypeOK, AgentTypeOK
  <2>6. VoteInv(u, g)'
    BY <2>0
       DEF VoteInv, DeleteFailed, StopAgent, CloseByServer, linkVars,
           agentVars, actorVars, coordVars
  <2>. QED
    BY <2>1, <2>2, <2>3, <2>4, <2>5, <2>6
<1>. QED
  BY <1>1, <1>2 DEF CoordInv, MessageInv, HostInv

LEMMA ResetKeeps ==
    ASSUME IndInv, NEW t \in Tx, NEW h \in Host, Reset(t, h),
           UNCHANGED <<actorVars, coordVars>>
    PROVE  CoordInv' /\ MessageInv' /\ HostInv'
<1>0. TypeOK
  BY DEF IndInv
<1>1. CoordInv'
  BY IndInv DEF IndInv, CoordInv, RoundInv, ResultInv, Reset, coordVars
<1>2. ASSUME NEW u \in Tx, NEW g \in Host
      PROVE  /\ CommitInv(u, g)' /\ RollbackInv(u, g)' /\ LifeInv(u, g)'
             /\ StorageInv(u, g)' /\ AckInv(u, g)' /\ VoteInv(u, g)'
  <2>0. /\ CommitInv(u, g) /\ RollbackInv(u, g) /\ LifeInv(u, g)
        /\ StorageInv(u, g) /\ AckInv(u, g) /\ VoteInv(u, g)
    BY Parts
  <2>1. CommitInv(u, g)'
    BY <1>0, <2>0, WaitsEmpty
       DEF CommitInv, CommitSent, Reset, actorVars, agentVars, coordVars,
           TypeOK, LinkTypeOK
  <2>2. RollbackInv(u, g)'
    BY <1>0, <2>0, WaitsEmpty
       DEF RollbackInv, RollbackSent, Reset, actorVars, agentVars, coordVars,
           TypeOK, LinkTypeOK
  <2>3. AckInv(u, g)'
    BY <1>0, <2>0, WaitsEmpty
       DEF AckInv, Reset, actorVars, agentVars, coordVars, TypeOK, LinkTypeOK
  <2>4. VoteInv(u, g)'
    BY <1>0, <2>0, WaitsEmpty
       DEF VoteInv, Reset, actorVars, agentVars, coordVars, TypeOK, LinkTypeOK
  <2>5. LifeInv(u, g)' /\ StorageInv(u, g)'
    BY <2>0
       DEF LifeInv, StorageInv, Reset, linkVars, agentVars, actorVars,
           coordVars
  <2>. QED
    BY <2>1, <2>2, <2>3, <2>4, <2>5
<1>. QED
  BY <1>1, <1>2 DEF CoordInv, MessageInv, HostInv

LEMMA ServerCrashKeeps ==
    ASSUME IndInv, NEW h \in Host, ServerCrash(h),
           UNCHANGED <<actorVars, coordVars>>
    PROVE  CoordInv' /\ MessageInv' /\ HostInv'
<1>0. TypeOK
  BY DEF IndInv
<1>1. CoordInv'
  BY IndInv
     DEF IndInv, CoordInv, RoundInv, ResultInv, ServerCrash, coordVars
<1>2. ASSUME NEW u \in Tx, NEW g \in Host
      PROVE  /\ CommitInv(u, g)' /\ RollbackInv(u, g)' /\ LifeInv(u, g)'
             /\ StorageInv(u, g)' /\ AckInv(u, g)' /\ VoteInv(u, g)'
  <2>0. /\ CommitInv(u, g) /\ RollbackInv(u, g) /\ LifeInv(u, g)
        /\ StorageInv(u, g) /\ AckInv(u, g) /\ VoteInv(u, g)
    BY Parts
  <2>1. CommitInv(u, g)'
    BY <1>0, <2>0, WaitsEmpty
       DEF CommitInv, CommitSent, ServerCrash, actorVars, coordVars, TypeOK,
           AgentTypeOK, LinkTypeOK
  <2>2. RollbackInv(u, g)'
    BY <1>0, <2>0, WaitsEmpty
       DEF RollbackInv, RollbackSent, ServerCrash, actorVars, coordVars,
           TypeOK, AgentTypeOK, LinkTypeOK
  <2>3. LifeInv(u, g)'
    BY <1>0, <2>0
       DEF LifeInv, ServerCrash, actorVars, coordVars, TypeOK, AgentTypeOK
  <2>4. StorageInv(u, g)'
    BY <1>0, <2>0
       DEF StorageInv, ServerCrash, agentVars, TypeOK, AgentTypeOK
  <2>5. AckInv(u, g)'
    BY <1>0, <2>0
       DEF AckInv, ServerCrash, actorVars, coordVars, linkVars, TypeOK,
           AgentTypeOK
  <2>6. VoteInv(u, g)'
    BY <2>0
       DEF VoteInv, ServerCrash, linkVars, agentVars, actorVars, coordVars
  <2>. QED
    BY <2>1, <2>2, <2>3, <2>4, <2>5, <2>6
<1>. QED
  BY <1>1, <1>2 DEF CoordInv, MessageInv, HostInv

(***************************************************************************)
(* Together: every step keeps IndInv.                                      *)
(***************************************************************************)
LEMMA InitInd == Init => IndInv
<1> SUFFICES ASSUME Init PROVE CoordInv /\ MessageInv /\ HostInv
  BY InitType DEF IndInv
<1>1. CoordInv
  BY FS_EmptySet, MinDbsAssumption
     DEF Init, CoordInit, CoordInv, RoundInv, ResultInv
<1>2. ASSUME NEW u \in Tx, NEW g \in Host
      PROVE  CommitInv(u, g) /\ RollbackInv(u, g) /\ LifeInv(u, g)
  BY WaitsEmpty
     DEF Init, LinkInit, AgentInit, ActorInit, CoordInit,
         CommitInv, CommitSent, RollbackInv, RollbackSent, LifeInv
<1>3. ASSUME NEW u \in Tx, NEW g \in Host
      PROVE  StorageInv(u, g) /\ AckInv(u, g) /\ VoteInv(u, g)
  BY WaitsEmpty
     DEF Init, LinkInit, AgentInit, ActorInit, CoordInit,
         StorageInv, AckInv, VoteInv
<1>. QED
  BY <1>1, <1>2, <1>3 DEF MessageInv, HostInv

LEMMA StutterKeeps ==
    ASSUME IndInv, UNCHANGED vars
    PROVE  CoordInv' /\ MessageInv' /\ HostInv'
<1>1. CoordInv'
  BY DEF vars, coordVars, IndInv, CoordInv, RoundInv, ResultInv
<1>2. ASSUME NEW u \in Tx, NEW g \in Host
      PROVE  /\ CommitInv(u, g)' /\ RollbackInv(u, g)' /\ LifeInv(u, g)'
             /\ StorageInv(u, g)' /\ AckInv(u, g)' /\ VoteInv(u, g)'
  BY Parts
     DEF vars, linkVars, agentVars, actorVars, coordVars, CommitInv, CommitSent,
         RollbackInv, RollbackSent, LifeInv, StorageInv, AckInv, VoteInv
<1>. QED
  BY <1>1, <1>2 DEF MessageInv, HostInv

LEMMA NextInd == IndInv /\ [Next]_vars => IndInv'
<1> SUFFICES ASSUME IndInv, [Next]_vars PROVE CoordInv' /\ MessageInv' /\ HostInv'
  BY NextType DEF IndInv
<1> DEFINE Kept == CoordInv' /\ MessageInv' /\ HostInv'
<1>1. ASSUME NEW t \in Tx, CoordStep(t) PROVE Kept
  BY <1>1, SelectHostsKeeps, NotEnoughKeeps, CollectVotesKeeps,
     StartCommitKeeps, CommitOkKeeps, StartRollbackKeeps, RollbackDoneKeeps
     DEF CoordStep
<1>2. ASSUME NEW t \in Tx, Servlet(t) PROVE Kept
  BY <1>2, PostKeeps, RespondHttpKeeps, HttpTimeoutKeeps DEF Servlet
<1>3. ASSUME NEW t \in Tx, NEW h \in Host, Connect(t, h) PROVE Kept
  BY <1>3, ConnectKeeps
<1>4. ASSUME NEW t \in Tx, NEW h \in Host, Timeout(t, h) PROVE Kept
  BY <1>4, TimeoutKeeps
<1>5. ASSUME NEW t \in Tx, NEW h \in Host, ActorStep(t, h) PROVE Kept
  BY <1>5, ReceivedKeeps, HandleCommitKeeps, HandleRollbackKeeps DEF ActorStep
<1>6. ASSUME NEW t \in Tx, NEW h \in Host, ServerStep(t, h) PROVE Kept
  BY <1>6, ReadVoteKeeps, ReadCommitKeeps, ReadRollbackKeeps,
     InsertDocumentKeeps, InsertDoneKeeps, DeleteDoneKeeps, ErrorClosedKeeps,
     PeerClosedKeeps
     DEF ServerStep, AgentStep
<1>7. ASSUME NEW t \in Tx, NEW h \in Host, AgentFault(t, h),
             UNCHANGED <<actorVars, coordVars>>
      PROVE  Kept
  BY <1>7, DropSplitVoteKeeps, DropJoinedCommandsKeeps, InsertFailedKeeps,
     DeleteFailedKeeps, ResetKeeps DEF AgentFault
<1>8. ASSUME NEW t \in Tx, NEW h \in Host, ConnectFailed(t, h),
             UNCHANGED <<agentVars, coordVars>>
      PROVE  Kept
  BY <1>8, ConnectFailedKeeps
<1>9. ASSUME NEW h \in Host, ServerCrash(h), UNCHANGED <<actorVars, coordVars>>
      PROVE  Kept
  BY <1>9, ServerCrashKeeps
<1>10. ASSUME NEW t \in Tx, ClientCrash(t), UNCHANGED agentVars PROVE Kept
  BY <1>10, ClientCrashKeeps
<1>11. CASE UNCHANGED vars
  BY <1>11, StutterKeeps
<1>12. CASE Next
  <2>1. CASE \E t \in Tx : CoordStep(t) \/ Servlet(t)
    BY <2>1, <1>1, <1>2
  <2>2. CASE \E t \in Tx, h \in Host :
          Connect(t, h) \/ Timeout(t, h) \/ ActorStep(t, h) \/ ServerStep(t, h)
    BY <2>2, <1>3, <1>4, <1>5, <1>6
  <2>3. CASE Fault
    BY <2>3, <1>7, <1>8, <1>9, <1>10 DEF Fault
  <2>. QED
    BY <1>11, <1>12, <2>1, <2>2, <2>3 DEF Next, AllDone
<1>. QED
  BY <1>11, <1>12

(* Invariance: IndInv holds in every reachable state.                       *)
THEOREM Invariance == Spec => []IndInv
  BY InitInd, NextInd, PTL DEF Spec

==============================================================================
