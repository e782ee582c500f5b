----------------------- MODULE TwoPhaseCommitOrder_proofs -----------------------
(***************************************************************************)
(* What follows from the order in which things happen: no insert starts    *)
(* behind a rollback, and where hosts can only fail to vote nothing is     *)
(* ever rolled back.                                                       *)
(***************************************************************************)
EXTENDS TwoPhaseCommitInv_proofs

USE DEF Commands, Answers, LinkStates, AgentStates, OpStates, ActorStates,
        Replies, HttpStates, Phases, Active, Results,
        VOTE, VOTE_OK, ACK, COMMIT, ROLLBACK

(***************************************************************************)
(* Queues and the order in them.                                           *)
(***************************************************************************)
LEMMA OrderEmpty ==
    ASSUME NEW a, NEW b PROVE InOrder(<<>>, a, b)
  BY DEF InOrder

LEMMA OrderTail ==
    ASSUME NEW S, NEW q \in Seq(S), q # <<>>, NEW a, NEW b, InOrder(q, a, b)
    PROVE  InOrder(Tail(q), a, b)
<1>1. ASSUME NEW i \in 1..Len(Tail(q)), NEW j \in 1..Len(Tail(q)),
             Tail(q)[i] = a, Tail(q)[j] = b
      PROVE  i < j
  <2>1. /\ i + 1 \in 1..Len(q) /\ q[i + 1] = a
        /\ j + 1 \in 1..Len(q) /\ q[j + 1] = b
    BY <1>1
  <2>2. i + 1 < j + 1
    BY <2>1 DEF InOrder
  <2>. QED
    BY <1>1, <2>2
<1>. QED
  BY <1>1 DEF InOrder

(* What is added keeps the order if it is not the first of the pair, or if *)
(* the last is not waiting yet.                                            *)
LEMMA OrderAppend ==
    ASSUME NEW S, NEW q \in Seq(S), NEW x \in S, NEW a, NEW b, a # b,
           InOrder(q, a, b), x # a \/ ~Waits(b, q)
    PROVE  InOrder(Append(q, x), a, b)
<1>1. Len(Append(q, x)) = Len(q) + 1 /\ Append(q, x)[Len(q) + 1] = x
  OBVIOUS
<1>2. \A i \in 1..Len(q) : Append(q, x)[i] = q[i]
  OBVIOUS
<1>3. \A i \in 1..Len(q) + 1 : i \in 1..Len(q) \/ i = Len(q) + 1
  OBVIOUS
<1>4. \A i \in 1..Len(q) : i < Len(q) + 1
  OBVIOUS
<1>. QED
  BY <1>1, <1>2, <1>3, <1>4 DEF InOrder, Waits

(* When the last of the pair comes to the head the first is gone. *)
LEMMA OrderHead ==
    ASSUME NEW S, NEW q \in Seq(S), q # <<>>, NEW a, NEW b,
           InOrder(q, a, b), Head(q) = b
    PROVE  ~Waits(a, q)
<1>1. 1 \in 1..Len(q) /\ q[1] = b
  OBVIOUS
<1>2. \A i \in 1..Len(q) : ~(i < 1)
  OBVIOUS
<1>. QED
  BY <1>1, <1>2 DEF InOrder, Waits

Shorter(r, q) == r = q \/ r = <<>> \/ (q # <<>> /\ r = Tail(q))

LEMMA ShorterKeeps ==
    ASSUME NEW S, NEW q \in Seq(S), NEW r, Shorter(r, q)
    PROVE  /\ \A m : Waits(m, r) => Waits(m, q)
           /\ \A a, b : InOrder(q, a, b) => InOrder(r, a, b)
<1>1. CASE r = <<>>
  BY <1>1, WaitsEmpty, OrderEmpty
<1>2. CASE q # <<>> /\ r = Tail(q)
  BY <1>2, WaitsTail, OrderTail
<1>. QED
  BY <1>1, <1>2 DEF Shorter

(***************************************************************************)
(* What a step can do to the queues of one transaction and host.           *)
(***************************************************************************)
SameDel(u, g) == del'[u][g] # "idle" <=> del[u][g] # "idle"

Drains(u, g) ==
    /\ Shorter(mailbox'[u][g], mailbox[u][g])
    /\ Shorter(toServer'[u][g], toServer[u][g])
    /\ SameDel(u, g)

Asks(u, g, ask) ==
    /\ mailbox'[u][g] = Append(mailbox[u][g], ask)
    /\ toServer'[u][g] = toServer[u][g]
    /\ SameDel(u, g)

Writes(u, g, ask, command) ==
    /\ mailbox[u][g] # <<>> /\ Head(mailbox[u][g]) = ask
    /\ mailbox'[u][g] = Tail(mailbox[u][g])
    /\ \/ toServer'[u][g] = toServer[u][g]
       \/ toServer'[u][g] = Append(toServer[u][g], command)
    /\ SameDel(u, g)

WritesVote(u, g) ==
    /\ mailbox'[u][g] = mailbox[u][g]
    /\ toServer'[u][g] = Append(toServer[u][g], VOTE)
    /\ SameDel(u, g)

RollsBack(u, g) ==
    /\ mailbox'[u][g] = mailbox[u][g]
    /\ toServer[u][g] # <<>> /\ Head(toServer[u][g]) = ROLLBACK
    /\ toServer'[u][g] = Tail(toServer[u][g])

Moves(u, g) ==
    \/ Drains(u, g)
    \/ Asks(u, g, "Commit") /\ ~RollbackSent(u, g)
    \/ Asks(u, g, "Rollback")
    \/ Writes(u, g, "Commit", COMMIT)
    \/ Writes(u, g, "Rollback", ROLLBACK)
    \/ WritesVote(u, g)
    \/ RollsBack(u, g)

LEMMA MovesKeep ==
    ASSUME TypeOK, NEW u \in Tx, NEW g \in Host, OrderInv(u, g), Moves(u, g)
    PROVE  OrderInv(u, g)'
<1> DEFINE m == mailbox[u][g]
           q == toServer[u][g]
           n == mailbox'[u][g]
           r == toServer'[u][g]
<1>1. m \in Seq({"Commit", "Rollback"}) /\ q \in Seq(Commands)
  BY DEF TypeOK, ActorTypeOK, LinkTypeOK
<1>2. CASE Drains(u, g)
  <2>1. /\ \A x : Waits(x, n) => Waits(x, m)
        /\ \A a, b : InOrder(m, a, b) => InOrder(n, a, b)
    BY <1>1, <1>2, ShorterKeeps DEF Drains
  <2>2. /\ \A x : Waits(x, r) => Waits(x, q)
        /\ \A a, b : InOrder(q, a, b) => InOrder(r, a, b)
    BY <1>1, <1>2, ShorterKeeps DEF Drains
  <2>. QED
    BY <1>2, <2>1, <2>2 DEF Drains, SameDel, OrderInv
<1>3. CASE Asks(u, g, "Commit") /\ ~RollbackSent(u, g)
  <2>1. InOrder(n, "Commit", "Rollback")
    BY <1>1, <1>3, OrderAppend DEF Asks, OrderInv, RollbackSent
  <2>. QED
    BY <1>3, <2>1 DEF Asks, SameDel, OrderInv, RollbackSent
<1>4. CASE Asks(u, g, "Rollback")
  <2>1. InOrder(n, "Commit", "Rollback")
    BY <1>1, <1>4, OrderAppend DEF Asks, OrderInv
  <2>2. Waits("Commit", n) => Waits("Commit", m)
    BY <1>1, <1>4, WaitsAppend DEF Asks
  <2>. QED
    BY <1>4, <2>1, <2>2 DEF Asks, SameDel, OrderInv
<1>5. CASE Writes(u, g, "Commit", COMMIT)
  <2>1. Waits("Commit", m) /\ ~Waits(ROLLBACK, q) /\ del[u][g] = "idle"
    BY <1>1, <1>5, WaitsHead DEF Writes, OrderInv
  <2>2. InOrder(n, "Commit", "Rollback")
    BY <1>1, <1>5, OrderTail DEF Writes, OrderInv
  <2>3. InOrder(r, COMMIT, ROLLBACK)
    BY <1>1, <1>5, <2>1, OrderAppend DEF Writes, OrderInv
  <2>4. ~Waits(ROLLBACK, r)
    <3>1. ~Waits(ROLLBACK, Append(q, COMMIT))
      BY <1>1, <2>1, WaitsAppend
    <3>. QED
      BY <1>5, <2>1, <3>1 DEF Writes
  <2>. QED
    BY <1>5, <2>1, <2>2, <2>3, <2>4 DEF Writes, SameDel, OrderInv
<1>6. CASE Writes(u, g, "Rollback", ROLLBACK)
  <2>1. ~Waits("Commit", m)
    BY <1>1, <1>6, OrderHead DEF Writes, OrderInv
  <2>2. InOrder(n, "Commit", "Rollback") /\ ~Waits("Commit", n)
    BY <1>1, <1>6, <2>1, OrderTail, WaitsTail DEF Writes, OrderInv
  <2>3. InOrder(r, COMMIT, ROLLBACK)
    BY <1>1, <1>6, OrderAppend DEF Writes, OrderInv
  <2>4. Waits(COMMIT, r) => Waits(COMMIT, q)
    <3>1. Waits(COMMIT, Append(q, ROLLBACK)) => Waits(COMMIT, q)
      BY <1>1, WaitsAppend
    <3>. QED
      BY <1>6, <3>1 DEF Writes
  <2>. QED
    BY <1>6, <2>1, <2>2, <2>3, <2>4 DEF Writes, SameDel, OrderInv
<1>7. CASE WritesVote(u, g)
  <2>1. InOrder(r, COMMIT, ROLLBACK)
    BY <1>1, <1>7, OrderAppend DEF WritesVote, OrderInv
  <2>2. /\ Waits(COMMIT, r) => Waits(COMMIT, q)
        /\ Waits(ROLLBACK, r) => Waits(ROLLBACK, q)
    <3>1. /\ Waits(COMMIT, Append(q, VOTE)) => Waits(COMMIT, q)
          /\ Waits(ROLLBACK, Append(q, VOTE)) => Waits(ROLLBACK, q)
      BY <1>1, WaitsAppend
    <3>. QED
      BY <1>7, <3>1 DEF WritesVote
  <2>. QED
    BY <1>7, <2>1, <2>2 DEF WritesVote, SameDel, OrderInv
<1>8. CASE RollsBack(u, g)
  <2>1. Waits(ROLLBACK, q) /\ ~Waits(COMMIT, q)
    BY <1>1, <1>8, WaitsHead, OrderHead DEF RollsBack, OrderInv
  <2>2. InOrder(r, COMMIT, ROLLBACK) /\ ~Waits(COMMIT, r)
    BY <1>1, <1>8, <2>1, OrderTail, WaitsTail DEF RollsBack, OrderInv
  <2>. QED
    BY <1>8, <2>1, <2>2 DEF RollsBack, OrderInv
<1>. QED
  BY <1>2, <1>3, <1>4, <1>5, <1>6, <1>7, <1>8 DEF Moves

(***************************************************************************)
(* Every step moves the queues in one of these ways.                       *)
(***************************************************************************)
LEMMA SameMoves ==
    ASSUME UNCHANGED <<mailbox, toServer, del>>, NEW u \in Tx, NEW g \in Host
    PROVE  Moves(u, g)
  BY DEF Moves, Drains, Shorter, SameDel

LEMMA StopMoves ==
    ASSUME IndInv, NEW t \in Tx, StopActors(t), UNCHANGED agentVars,
           NEW u \in Tx, NEW g \in Host
    PROVE  Moves(u, g)
  BY DEF IndInv, StopActors, CloseByClient, agentVars, Moves, Drains, Shorter,
         SameDel, TypeOK, ActorTypeOK

LEMMA CoordMoves ==
    ASSUME IndInv, NEW t \in Tx, CoordStep(t), NEW u \in Tx, NEW g \in Host
    PROVE  Moves(u, g)
<1>0. TypeOK
  BY DEF IndInv
<1>1. CASE SelectHosts(t) \/ CollectVotes(t)
  BY <1>1, SameMoves
     DEF CoordStep, SelectHosts, CollectVotes, AskVote, linkVars, actorVars, agentVars
<1>2. CASE StartCommit(t)
  <2>1. UNCHANGED <<toServer, del>>
    BY <1>2 DEF CoordStep, StartCommit, linkVars, agentVars
  <2>2. u = t => ~RollbackSent(u, g)
    BY <1>2, Parts DEF StartCommit, RollbackInv
  <2>3. CASE u = t /\ g \in committing[t]
    BY <1>0, <1>2, <2>1, <2>2, <2>3
       DEF StartCommit, Ask, Moves, Asks, SameDel, TypeOK, ActorTypeOK
  <2>4. CASE ~(u = t /\ g \in committing[t])
    BY <1>0, <1>2, <2>1, <2>4
       DEF StartCommit, Ask, Moves, Drains, Shorter, SameDel, TypeOK, ActorTypeOK
  <2>. QED
    BY <2>3, <2>4
<1>3. CASE StartRollback(t)
  <2>1. UNCHANGED <<toServer, del>>
    BY <1>3 DEF CoordStep, StartRollback, linkVars, agentVars
  <2>2. CASE u = t /\ g \in committing[t]
    BY <1>0, <1>3, <2>1, <2>2
       DEF StartRollback, Ask, Moves, Asks, SameDel, TypeOK, ActorTypeOK
  <2>3. CASE ~(u = t /\ g \in committing[t])
    BY <1>0, <1>3, <2>1, <2>3
       DEF StartRollback, Ask, Moves, Drains, Shorter, SameDel, TypeOK, ActorTypeOK
  <2>. QED
    BY <2>2, <2>3
<1>4. CASE NotEnough(t) \/ CommitOk(t) \/ RollbackDone(t)
  <2>1. StopActors(t)
    BY <1>4 DEF NotEnough, CommitOk, RollbackDone, Finish
  <2>. QED
    BY <2>1, StopMoves DEF CoordStep
<1>. QED
  BY <1>1, <1>2, <1>3, <1>4 DEF CoordStep

LEMMA ClientMoves ==
    ASSUME IndInv, NEW t \in Tx, NEW h \in Host,
           \/ Connect(t, h) \/ Timeout(t, h) \/ ActorStep(t, h)
           \/ ConnectFailed(t, h) /\ UNCHANGED agentVars,
           NEW u \in Tx, NEW g \in Host
    PROVE  Moves(u, g)
<1>0. TypeOK
  BY DEF IndInv
<1>1. CASE Connect(t, h)
  <2>1. CASE u = t /\ g = h
    BY <1>0, <1>1, <2>1
       DEF Connect, Connected, Moves, WritesVote, SameDel, TypeOK, LinkTypeOK
  <2>2. CASE ~(u = t /\ g = h)
    BY <1>0, <1>1, <2>2
       DEF Connect, Connected, Moves, Drains, Shorter, SameDel, TypeOK, LinkTypeOK
  <2>. QED
    BY <2>1, <2>2
<1>2. CASE \/ Timeout(t, h)
           \/ Received(t, h) /\ UNCHANGED agentVars
           \/ ConnectFailed(t, h) /\ UNCHANGED agentVars
  BY <1>2, SameMoves
     DEF Timeout, AskTimeout, Received, ConnectFailed, linkVars, agentVars
<1>3. CASE HandleCommit(t, h) /\ UNCHANGED agentVars
  <2>1. CASE u = t /\ g = h
    BY <1>0, <1>3, <2>1
       DEF HandleCommit, WriteCommand, agentVars, Moves, Writes, SameDel,
           TypeOK, LinkTypeOK, ActorTypeOK
  <2>2. CASE ~(u = t /\ g = h)
    BY <1>0, <1>3, <2>2
       DEF HandleCommit, WriteCommand, agentVars, Moves, Drains, Shorter,
           SameDel, TypeOK, LinkTypeOK, ActorTypeOK
  <2>. QED
    BY <2>1, <2>2
<1>4. CASE HandleRollback(t, h) /\ UNCHANGED agentVars
  <2>1. CASE u = t /\ g = h
    BY <1>0, <1>4, <2>1
       DEF HandleRollback, WriteCommand, agentVars, Moves, Writes, SameDel,
           TypeOK, LinkTypeOK, ActorTypeOK
  <2>2. CASE ~(u = t /\ g = h)
    BY <1>0, <1>4, <2>2
       DEF HandleRollback, WriteCommand, agentVars, Moves, Drains, Shorter,
           SameDel, TypeOK, LinkTypeOK, ActorTypeOK
  <2>. QED
    BY <2>1, <2>2
<1>5. CASE ActorStep(t, h)
  <2>1. UNCHANGED agentVars
    BY <1>5 DEF ActorStep
  <2>2. Received(t, h) \/ HandleCommit(t, h) \/ HandleRollback(t, h)
    BY <1>5 DEF ActorStep
  <2>. QED
    BY <1>2, <1>3, <1>4, <2>1, <2>2
<1>. QED
  BY <1>1, <1>2, <1>5

LEMMA ServerMoves ==
    ASSUME IndInv, NEW t \in Tx, NEW h \in Host,
           AgentStep(t, h) \/ PeerClosed(t, h) \/ AgentFault(t, h),
           UNCHANGED <<actorVars, coordVars>>, NEW u \in Tx, NEW g \in Host
    PROVE  Moves(u, g)
<1>0. TypeOK /\ mailbox' = mailbox
  BY DEF IndInv, actorVars
<1>1. CASE ReadVote(t, h) \/ ReadCommit(t, h) \/ DropSplitVote(t, h)
  <2>1. /\ toServer' = [toServer EXCEPT ![t][h] = Tail(@)]
        /\ toServer[t][h] # <<>> /\ del' = del
    BY <1>1 DEF ReadVote, ReadCommit, DropSplitVote, Reads, Consume, agentVars
  <2>2. Shorter(toServer'[u][g], toServer[u][g])
    BY <1>0, <2>1 DEF Shorter, TypeOK, LinkTypeOK
  <2>. QED
    BY <1>0, <2>1, <2>2 DEF Moves, Drains, Shorter, SameDel
<1>2. CASE ReadRollback(t, h)
  <2>1. CASE u = t /\ g = h
    BY <1>0, <1>2, <2>1
       DEF ReadRollback, Reads, Consume, Moves, RollsBack, TypeOK, LinkTypeOK
  <2>2. CASE ~(u = t /\ g = h)
    BY <1>0, <1>2, <2>2
       DEF ReadRollback, Reads, Consume, Moves, Drains, Shorter, SameDel,
           TypeOK, LinkTypeOK, AgentTypeOK
  <2>. QED
    BY <2>1, <2>2
<1>3. CASE InsertDocument(t, h)
  BY <1>0, <1>3, SameMoves DEF InsertDocument, linkVars
<1>4. ASSUME toServer' = [toServer EXCEPT ![t][h] = <<>>], SameDel(u, g)
      PROVE  Moves(u, g)
  <2>1. Shorter(toServer'[u][g], toServer[u][g])
    BY <1>0, <1>4 DEF Shorter, TypeOK, LinkTypeOK
  <2>. QED
    BY <1>0, <1>4, <2>1 DEF Moves, Drains, Shorter
<1>5. CASE \/ DropJoinedCommands(t, h) \/ Reset(t, h)
           \/ InsertDone(t, h) \/ InsertFailed(t, h)
           \/ ErrorClosed(t, h) \/ PeerClosed(t, h)
  <2>1. del' = del /\ toServer' = [toServer EXCEPT ![t][h] = <<>>]
    BY <1>5
       DEF DropJoinedCommands, Reset, agentVars, InsertDone, InsertFailed,
           ErrorClosed, PeerClosed, StopAgent, CloseByServer
  <2>. QED
    BY <1>4, <2>1 DEF SameDel
<1>6. CASE DeleteDone(t, h) \/ DeleteFailed(t, h)
  <2>1. toServer' = [toServer EXCEPT ![t][h] = <<>>]
    BY <1>6 DEF DeleteDone, DeleteFailed, StopAgent, CloseByServer
  <2>2. del[t][h] = "running"
    BY <1>6 DEF DeleteDone, DeleteFailed
  <2>3. PICK end \in {"done", "failed"} : del' = [del EXCEPT ![t][h] = end]
    BY <1>6 DEF DeleteDone, DeleteFailed
  <2>4. SameDel(u, g)
    BY <1>0, <2>2, <2>3 DEF SameDel, TypeOK, AgentTypeOK
  <2>. QED
    BY <1>4, <2>1, <2>4
<1>. QED
  BY <1>1, <1>2, <1>3, <1>5, <1>6 DEF AgentStep, AgentFault

LEMMA ServerCrashMoves ==
    ASSUME IndInv, NEW h \in Host, ServerCrash(h), UNCHANGED actorVars,
           NEW u \in Tx, NEW g \in Host
    PROVE  Moves(u, g)
  BY DEF IndInv, ServerCrash, actorVars, Moves, Drains, Shorter, SameDel,
         TypeOK, LinkTypeOK, AgentTypeOK

LEMMA NextMoves ==
    ASSUME IndInv, [Next]_vars, NEW u \in Tx, NEW g \in Host PROVE Moves(u, g)
<1>1. ASSUME NEW t \in Tx, Servlet(t) PROVE Moves(u, g)
  BY <1>1, SameMoves
     DEF Servlet, Post, RespondHttp, HttpTimeout, linkVars, actorVars, agentVars
<1>2. ASSUME NEW t \in Tx, ClientCrash(t), UNCHANGED agentVars PROVE Moves(u, g)
  BY <1>2, StopMoves DEF ClientCrash
<1>3. CASE UNCHANGED vars
  BY <1>3, SameMoves DEF vars, linkVars, actorVars, agentVars
<1>4. CASE Fault
  BY <1>2, <1>4, ClientMoves, ServerMoves, ServerCrashMoves DEF Fault
<1>. QED
  BY <1>1, <1>3, <1>4, CoordMoves, ClientMoves, ServerMoves
     DEF Next, AllDone, ServerStep

LEMMA InitOrder == Init => CommandOrder
  BY WaitsEmpty, OrderEmpty
     DEF Init, LinkInit, AgentInit, ActorInit, CommandOrder, OrderInv

LEMMA NextOrder == IndInv /\ CommandOrder /\ [Next]_vars => CommandOrder'
<1> SUFFICES ASSUME IndInv, CommandOrder, [Next]_vars,
                    NEW u \in Tx, NEW g \in Host
             PROVE  OrderInv(u, g)'
  BY DEF CommandOrder
<1>. QED
  BY NextMoves, MovesKeep DEF CommandOrder, IndInv

(* CommandsInOrder: in every environment Rollback stays behind Commit from *)
(* the mailbox of the CommitActor to the agent.                            *)
THEOREM CommandsInOrder == Spec => []CommandOrder
  BY Invariance, InitOrder, NextOrder, PTL DEF Spec

(***************************************************************************)
(* Only an agent that reads COMMIT starts an insert.                       *)
(***************************************************************************)
LEMMA StartsByCommit ==
    ASSUME IndInv, [Next]_vars, NEW u \in Tx, NEW g \in Host,
           ins[u][g] = "idle", ins'[u][g] = "running"
    PROVE  Reads(u, g, COMMIT)
<1>0. TypeOK
  BY DEF IndInv
<1>1. ins' # ins
  OBVIOUS
<1>2. ASSUME NEW t \in Tx, NEW h \in Host, AgentStep(t, h) \/ PeerClosed(t, h)
      PROVE  Reads(u, g, COMMIT)
  <2>1. ReadCommit(t, h) \/ InsertDone(t, h)
    BY <1>1, <1>2
       DEF AgentStep, ReadVote, ReadRollback, InsertDocument, DeleteDone, ErrorClosed,
           PeerClosed, agentVars
  <2>2. u = t /\ g = h
    BY <1>0, <2>1 DEF ReadCommit, InsertDone, TypeOK, AgentTypeOK
  <2>3. ~InsertDone(t, h)
    BY <2>2 DEF InsertDone
  <2>. QED
    BY <2>1, <2>2, <2>3 DEF ReadCommit
<1>3. ASSUME NEW t \in Tx, NEW h \in Host, AgentFault(t, h) PROVE FALSE
  <2>1. InsertFailed(t, h)
    BY <1>1, <1>3
       DEF AgentFault, DropSplitVote, DropJoinedCommands, DeleteFailed, Reset,
           agentVars
  <2>. QED
    BY <1>0, <2>1 DEF InsertFailed, TypeOK, AgentTypeOK
<1>4. ASSUME NEW h \in Host, ServerCrash(h) PROVE FALSE
  BY <1>0, <1>4 DEF ServerCrash, TypeOK, AgentTypeOK
<1>5. ~UNCHANGED agentVars
  BY <1>1 DEF agentVars
<1>6. \A t \in Tx, h \in Host : ~Connect(t, h)
  BY <1>1 DEF Connect
<1>. QED
  BY <1>2, <1>3, <1>4, <1>5, <1>6
     DEF Next, Fault, AllDone, vars, CoordStep, Servlet, Timeout, ActorStep,
         ServerStep

(* NoLateInsert: in every environment, an agent that has read ROLLBACK     *)
(* starts no insertMany any more.                                          *)
THEOREM NoLateInsert == Spec => InsertNeverStartsAfterRollback
<1> DEFINE Step ==
      \A t \in Tx, h \in Host :
          ins[t][h] = "idle" /\ ins'[t][h] = "running" => del[t][h] = "idle"
<1>1. IndInv /\ CommandOrder /\ [Next]_vars => Step
  <2> SUFFICES ASSUME IndInv, CommandOrder, [Next]_vars, NEW t \in Tx,
                      NEW h \in Host, ins[t][h] = "idle", ins'[t][h] = "running"
               PROVE  del[t][h] = "idle"
    OBVIOUS
  <2>1. Reads(t, h, COMMIT)
    BY StartsByCommit
  <2>2. toServer[t][h] \in Seq(Commands) /\ toServer[t][h] # <<>>
    BY <2>1 DEF Reads, IndInv, TypeOK, LinkTypeOK
  <2>3. Waits(COMMIT, toServer[t][h])
    BY <2>1, <2>2, WaitsHead DEF Reads
  <2>. QED
    BY <2>3 DEF CommandOrder, OrderInv
<1>. QED
  BY <1>1, Invariance, CommandsInOrder, PTL DEF Spec, InsertNeverStartsAfterRollback

(***************************************************************************)
(* Where hosts can only fail to vote.                                      *)
(***************************************************************************)
LEMMA OneInQueue ==
    ASSUME NEW x
    PROVE  /\ Append(<<>>, x) = <<x>> /\ <<x>> # <<>> /\ Len(<<x>>) = 1
           /\ Head(<<x>>) = x /\ Tail(<<x>>) = <<>>
  OBVIOUS

Before == {"idle", "selecting", "voting"}

LEMMA NothingRolledBack ==
    ASSUME IndInv, NoRollback, NEW t \in Tx, NEW h \in Host,
           phase[t] \in Before \cup {"committing"}
    PROVE  del[t][h] = "idle" /\ StageInv(t, h)
  BY Parts DEF Before, RollbackInv, RollbackSent, NoRollback

(* The rest of the state does not matter to the stage of t with h. *)
Untouched(t, h) ==
    /\ actor'[t][h] = actor[t][h] /\ link'[t][h] = link[t][h]
    /\ agent'[t][h] = agent[t][h] /\ ins'[t][h] = ins[t][h]
    /\ mailbox'[t][h] = mailbox[t][h] /\ reply'[t][h] = reply[t][h]
    /\ toServer'[t][h] = toServer[t][h] /\ toClient'[t][h] = toClient[t][h]

LEMMA UntouchedStage ==
    ASSUME NoRollback, NEW u \in Tx, NEW g \in Host, Untouched(u, g),
           phase'[u] = phase[u], committing'[u] = committing[u]
    PROVE  StageInv(u, g)'
  BY DEF NoRollback, StageInv, Untouched, Ready, Candidate, Acknowledging,
         Connection, Silent

(***************************************************************************)
(* The coordinator.                                                        *)
(***************************************************************************)
LEMMA CoordOther ==
    ASSUME IndInv, NEW t \in Tx, CoordStep(t) \/ Servlet(t), NEW u \in Tx, u # t,
           NEW g \in Host
    PROVE  Untouched(u, g) /\ phase'[u] = phase[u] /\ committing'[u] = committing[u]
<1>0. TypeOK
  BY DEF IndInv
<1>1. UNCHANGED agentVars
  BY DEF CoordStep, Servlet
<1>2. CASE SelectHosts(t) \/ CollectVotes(t) \/ StartCommit(t) \/ StartRollback(t)
  BY <1>0, <1>1, <1>2
     DEF SelectHosts, CollectVotes, StartCommit, StartRollback, Ask, AskVote,
         Goto, linkVars, actorVars, agentVars, Untouched, TypeOK, ActorTypeOK,
         CoordTypeOK
<1>3. CASE NotEnough(t) \/ CommitOk(t) \/ RollbackDone(t)
  <2>1. \E res \in Results : Finish(t, res)
    BY <1>3 DEF NotEnough, CommitOk, RollbackDone
  <2>. QED
    BY <1>0, <1>1, <2>1
       DEF Finish, StopActors, CloseByClient, Goto, agentVars, Untouched, TypeOK,
           ActorTypeOK, LinkTypeOK, CoordTypeOK
<1>4. CASE Post(t) \/ RespondHttp(t) \/ HttpTimeout(t)
  BY <1>0, <1>1, <1>4
     DEF Post, RespondHttp, HttpTimeout, Goto, linkVars, actorVars, agentVars,
         Untouched, TypeOK, CoordTypeOK
<1>. QED
  BY <1>2, <1>3, <1>4 DEF CoordStep, Servlet

(* No ask is answered otherwise than by Ack. *)
LEMMA AlwaysAck ==
    ASSUME IndInv, NoRollback, NEW t \in Tx, phase[t] = "committing",
           Answered(t, committing[t])
    PROVE  AllAck(t)
<1>1. committing[t] \subseteq Host
  BY DEF IndInv, TypeOK, CoordTypeOK
<1>2. ASSUME NEW h \in committing[t] PROVE reply[t][h] = "Ack"
  <2>1. Acknowledging(t, h) /\ reply[t][h] # "awaited"
    BY <1>1 DEF NoRollback, StageInv, Answered
  <2>. QED
    BY <2>1 DEF Acknowledging
<1>. QED
  BY <1>2 DEF AllAck

Decided(t) ==
    /\ phase[t] \notin {"rollingBack", "crashed"}
    /\ result[t] = "Error" => Cardinality(committing[t]) < MinDbs

LEMMA CoordDecides ==
    ASSUME VotesOnlyFail, IndInv, NoRollback, NEW t \in Tx,
           CoordStep(t) \/ Servlet(t), NEW u \in Tx
    PROVE  Decided(u)'
<1>0. TypeOK /\ ResultInv(t) /\ Decided(u)
  BY CoordParts DEF IndInv, NoRollback, Decided
<1>1. CASE SelectHosts(t) \/ CollectVotes(t) \/ StartCommit(t)
  <2>1. /\ phase'[t] \in {"voting", "selecting", "committing"}
        /\ phase[t] \in {"voting", "selecting"}
        /\ result' = result
    BY <1>0, <1>1
       DEF SelectHosts, CollectVotes, StartCommit, Goto, TypeOK, CoordTypeOK
  <2>2. u # t => phase'[u] = phase[u] /\ committing'[u] = committing[u]
    BY <1>0, <1>1
       DEF SelectHosts, CollectVotes, StartCommit, Goto, TypeOK, CoordTypeOK
  <2>. QED
    BY <1>0, <2>1, <2>2 DEF Decided, ResultInv
<1>2. ~StartRollback(t) /\ ~RollbackDone(t)
  BY AlwaysAck DEF StartRollback, RollbackDone, NoRollback
<1>3. CASE CommitOk(t) \/ NotEnough(t)
  BY <1>0, <1>3
     DEF CommitOk, NotEnough, Finish, Goto, Decided, TypeOK, CoordTypeOK
<1>4. CASE Post(t) \/ RespondHttp(t) \/ HttpTimeout(t)
  BY <1>0, <1>4
     DEF Post, RespondHttp, HttpTimeout, Goto, Decided, TypeOK, CoordTypeOK
<1>. QED
  BY <1>1, <1>2, <1>3, <1>4 DEF CoordStep, Servlet

LEMMA CoordStage ==
    ASSUME VotesOnlyFail, IndInv, NoRollback, NEW t \in Tx, CoordStep(t),
           NEW g \in Host
    PROVE  StageInv(t, g)'
<1>0. TypeOK /\ UNCHANGED agentVars
  BY DEF IndInv, CoordStep
<1>1. RoundInv(t) /\ LifeInv(t, g) /\ StageInv(t, g)
  BY CoordParts, Parts DEF NoRollback
<1>2. CASE SelectHosts(t)
  <2>1. PICK S \in SUBSET pool[t] : AskVote(t, S)
    BY <1>2 DEF SelectHosts
  <2>2. phase[t] = "selecting" /\ phase'[t] = "voting" /\ committing' = committing
        /\ UNCHANGED linkVars
    BY <1>0, <1>2 DEF SelectHosts, Goto, TypeOK, CoordTypeOK
  <2>3. CASE g \in S
    <3>1. actor[t][g] = "absent" /\ g \notin committing[t]
      BY <1>1, <2>2, <2>3 DEF LifeInv, RoundInv
    <3>2. Silent(t, g) /\ mailbox[t][g] = <<>>
      BY <1>1, <2>2, <3>1 DEF StageInv, Candidate, Connection
    <3>3. /\ actor'[t][g] = "connecting" /\ reply'[t][g] = "awaited"
          /\ mailbox' = mailbox
      BY <1>0, <2>1, <2>3 DEF AskVote, TypeOK, ActorTypeOK
    <3>. QED
      BY <2>2, <3>1, <3>2, <3>3 DEF StageInv, Candidate, Silent, linkVars
  <2>4. CASE g \notin S
    <3>1. Untouched(t, g)
      BY <1>0, <2>1, <2>2, <2>4
         DEF AskVote, Untouched, linkVars, agentVars, TypeOK, ActorTypeOK
    <3>. QED
      BY <1>1, <2>2, <3>1
         DEF StageInv, Untouched, Ready, Candidate, Connection, Silent
  <2>. QED
    BY <2>3, <2>4
<1>3. CASE CollectVotes(t)
  <2>1. /\ phase[t] = "voting" /\ phase'[t] = "selecting" /\ Untouched(t, g)
        /\ committing'[t] = committing[t] \cup {h \in asked[t] : reply[t][h] = "VoteOk"}
    BY <1>0, <1>3
       DEF CollectVotes, Goto, Untouched, linkVars, actorVars, agentVars, TypeOK,
           CoordTypeOK
  <2>2. g \in committing'[t] => Ready(t, g)
    BY <1>1, <2>1 DEF StageInv, Candidate, Ready
  <2>3. g \notin committing'[t] => Candidate(t, g)
    BY <1>1, <2>1 DEF StageInv
  <2>. QED
    BY <2>1, <2>2, <2>3
       DEF StageInv, Untouched, Ready, Candidate, Connection, Silent
<1>4. CASE StartCommit(t)
  <2>1. /\ phase[t] = "selecting" /\ phase'[t] = "committing"
        /\ UNCHANGED <<linkVars, committing, actor>>
    BY <1>0, <1>4 DEF StartCommit, Ask, Goto, TypeOK, CoordTypeOK
  <2>2. ASSUME g \in committing[t] PROVE Acknowledging(t, g)'
    <3>1. Ready(t, g)
      BY <1>1, <2>1, <2>2 DEF StageInv
    <3>2. /\ mailbox'[t][g] = Append(mailbox[t][g], "Commit")
          /\ reply'[t][g] = "awaited"
      BY <1>0, <1>4, <2>2 DEF StartCommit, Ask, TypeOK, ActorTypeOK
    <3>3. mailbox'[t][g] = <<"Commit">>
      BY <3>1, <3>2 DEF Ready
    <3>. QED
      BY <1>0, <2>1, <3>1, <3>2, <3>3
         DEF Acknowledging, Ready, Connection, Silent, linkVars, agentVars
  <2>. QED
    BY <2>1, <2>2 DEF StageInv
<1>5. ~StartRollback(t) /\ ~RollbackDone(t)
  BY AlwaysAck DEF StartRollback, RollbackDone, NoRollback
<1>6. CASE CommitOk(t) \/ NotEnough(t)
  <2>1. phase'[t] = "stopped"
    BY <1>0, <1>6 DEF CommitOk, NotEnough, Finish, Goto, TypeOK, CoordTypeOK
  <2>. QED
    BY <2>1 DEF StageInv
<1>. QED
  BY <1>2, <1>3, <1>4, <1>5, <1>6 DEF CoordStep

LEMMA ServletStage ==
    ASSUME VotesOnlyFail, IndInv, NoRollback, NEW t \in Tx, Servlet(t),
           NEW g \in Host
    PROVE  StageInv(t, g)'
<1>0. TypeOK /\ UNCHANGED agentVars
  BY DEF IndInv, Servlet
<1>1. Untouched(t, g) /\ committing' = committing
  BY <1>0
     DEF Servlet, Post, RespondHttp, HttpTimeout, linkVars, actorVars, agentVars,
         Untouched
<1>2. CASE Post(t)
  <2>1. phase[t] = "idle" /\ phase'[t] = "selecting"
    BY <1>0, <1>2 DEF Post, Goto, TypeOK, CoordTypeOK
  <2>. QED
    BY <1>1, <2>1
       DEF NoRollback, StageInv, Untouched, Ready, Candidate, Connection, Silent
<1>3. CASE RespondHttp(t) \/ HttpTimeout(t)
  <2>1. phase' = phase
    BY <1>3 DEF RespondHttp, HttpTimeout
  <2>. QED
    BY <1>1, <2>1, UntouchedStage
<1>. QED
  BY <1>2, <1>3 DEF Servlet

(***************************************************************************)
(* A CommitActor.                                                          *)
(***************************************************************************)
LEMMA ConnectStage ==
    ASSUME IndInv, NoRollback, NEW t \in Tx, NEW h \in Host, Connect(t, h)
    PROVE  StageInv(t, h)'
<1>0. TypeOK /\ LifeInv(t, h) /\ CommitInv(t, h) /\ StageInv(t, h)
  BY Parts DEF IndInv, NoRollback
<1>1. /\ actor[t][h] = "connecting" /\ actor'[t][h] = "open"
      /\ link'[t][h] = "up" /\ agent'[t][h] = "alive"
      /\ toServer'[t][h] = Append(toServer[t][h], VOTE)
      /\ UNCHANGED <<toClient, mailbox, reply, ins, phase, committing>>
  BY <1>0
     DEF Connect, Connected, coordVars, TypeOK, LinkTypeOK, ActorTypeOK, AgentTypeOK
<1>2. ins[t][h] = "idle"
  BY <1>0, <1>1 DEF LifeInv
<1>3. CASE phase[t] \in Before
  <2>1. h \notin committing[t] /\ Candidate(t, h)
    BY <1>0, <1>1, <1>3 DEF StageInv, Before, Ready, Connection
  <2>2. /\ Silent(t, h) /\ mailbox[t][h] = <<>> /\ reply[t][h] = "awaited"
        /\ toServer'[t][h] = <<VOTE>>
    BY <1>1, <2>1, OneInQueue DEF Candidate, Connection, Silent
  <2>. QED
    BY <1>1, <1>2, <1>3, <2>1, <2>2
       DEF StageInv, Before, Candidate, Connection, Silent
<1>4. CASE phase[t] \notin Before
  BY <1>0, <1>1, <1>4 DEF StageInv, Before, Acknowledging, Connection
<1>. QED
  BY <1>3, <1>4

LEMMA ConnectFailedStage ==
    ASSUME IndInv, NoRollback, NEW t \in Tx, NEW h \in Host,
           ConnectFailed(t, h), UNCHANGED <<agentVars, coordVars>>
    PROVE  StageInv(t, h)'
<1>0. TypeOK /\ StageInv(t, h)
  BY DEF IndInv, NoRollback
<1>1. /\ actor[t][h] = "connecting" /\ actor'[t][h] = "stopped"
      /\ reply'[t][h] = IF reply[t][h] = "awaited" THEN "VoteError" ELSE reply[t][h]
      /\ UNCHANGED <<linkVars, mailbox, phase, committing>>
  BY <1>0 DEF ConnectFailed, ReplyListener, coordVars, TypeOK, ActorTypeOK
<1>2. CASE phase[t] \in Before
  <2>1. h \notin committing[t] /\ Candidate(t, h)
    BY <1>0, <1>1, <1>2 DEF StageInv, Before, Ready, Connection
  <2>2. Silent(t, h) /\ mailbox[t][h] = <<>> /\ reply[t][h] = "awaited"
    BY <1>1, <2>1 DEF Candidate, Connection
  <2>. QED
    BY <1>1, <1>2, <2>1, <2>2 DEF StageInv, Before, Candidate, Silent, linkVars
<1>3. CASE phase[t] \notin Before
  BY <1>0, <1>1, <1>3 DEF StageInv, Before, Acknowledging, Connection
<1>. QED
  BY <1>2, <1>3

(* A timeout only finds a VOTE that was dropped. *)
LEMMA TimeoutStage ==
    ASSUME VotesOnlyFail, IndInv, NoRollback, NEW t \in Tx, NEW h \in Host,
           Timeout(t, h)
    PROVE  StageInv(t, h)'
<1>0. TypeOK /\ StageInv(t, h)
  BY DEF IndInv, NoRollback
<1>1. /\ NoAnswerComing(t, h) /\ reply[t][h] = "awaited"
      /\ UNCHANGED <<linkVars, agentVars, actor, mailbox, phase, committing>>
  BY DEF VotesOnlyFail, Timeout, AskTimeout, coordVars
<1>2. CASE phase[t] \in Before
  <2>1. CASE h \in committing[t]
    BY <1>0, <1>1, <1>2, <2>1
       DEF StageInv, Before, Ready, Connection, Silent, linkVars, agentVars
  <2>2. CASE h \notin committing[t]
    <3>1. Candidate(t, h)
      BY <1>0, <1>2, <2>2 DEF StageInv, Before
    <3>2. CASE Connection(t, h)
      <4>1. Silent(t, h) /\ mailbox[t][h] = <<>>
        BY <1>1, <3>1, <3>2, OneInQueue
           DEF Candidate, Connection, NoAnswerComing
      <4>. QED
        BY <1>1, <1>2, <2>2, <3>2, <4>1
           DEF StageInv, Before, Candidate, Connection, Silent, linkVars, agentVars
    <3>3. CASE ~Connection(t, h)
      BY <1>1, <3>1, <3>3 DEF Candidate, NoAnswerComing
    <3>. QED
      BY <3>2, <3>3
  <2>. QED
    BY <2>1, <2>2
<1>3. CASE phase[t] = "committing" /\ h \in committing[t]
  <2>1. Acknowledging(t, h)
    BY <1>0, <1>3 DEF StageInv
  <2>. QED
    BY <1>1, <2>1, OneInQueue DEF Acknowledging, Connection, NoAnswerComing
<1>4. CASE phase[t] \notin Before /\ ~(phase[t] = "committing" /\ h \in committing[t])
  BY <1>1, <1>4 DEF StageInv, Before
<1>. QED
  BY <1>2, <1>3, <1>4

LEMMA ReceivedStage ==
    ASSUME IndInv, NoRollback, NEW t \in Tx, NEW h \in Host,
           Received(t, h), UNCHANGED <<agentVars, coordVars>>
    PROVE  StageInv(t, h)'
<1>0. TypeOK /\ StageInv(t, h)
  BY DEF IndInv, NoRollback
<1>1. /\ actor[t][h] = "open" /\ toClient[t][h] # <<>>
      /\ toClient'[t][h] = Tail(toClient[t][h])
      /\ reply'[t][h] =
           IF mailbox[t][h] = <<>> /\ reply[t][h] = "awaited"
           THEN AnswerTo(Head(toClient[t][h])) ELSE reply[t][h]
      /\ UNCHANGED <<link, toServer, actor, mailbox, agentVars, phase, committing>>
  BY <1>0 DEF Received, ReplyListener, coordVars, TypeOK, LinkTypeOK, ActorTypeOK
<1>2. CASE phase[t] \in Before
  <2>1. h \notin committing[t] /\ Candidate(t, h)
    BY <1>0, <1>1, <1>2 DEF StageInv, Before, Ready, Silent
  <2>2. /\ Connection(t, h) /\ mailbox[t][h] = <<>> /\ toServer[t][h] = <<>>
        /\ toClient[t][h] = <<VOTE_OK>>
    BY <1>1, <2>1 DEF Candidate, Silent
  <2>3. toClient'[t][h] = <<>>
    BY <1>1, <2>2, OneInQueue
  <2>. QED
    BY <1>1, <1>2, <2>1, <2>2, <2>3
       DEF StageInv, Before, Candidate, Connection, Silent, agentVars
<1>3. CASE phase[t] = "committing" /\ h \in committing[t]
  <2>1. Acknowledging(t, h)
    BY <1>0, <1>3 DEF StageInv
  <2>2. reply'[t][h] = "Ack"
    BY <1>1, <2>1, OneInQueue DEF Acknowledging, Silent, Connection, AnswerTo
  <2>. QED
    BY <1>1, <1>3, <2>2 DEF StageInv, Acknowledging
<1>4. CASE phase[t] \notin Before /\ ~(phase[t] = "committing" /\ h \in committing[t])
  BY <1>1, <1>4 DEF StageInv, Before
<1>. QED
  BY <1>2, <1>3, <1>4

LEMMA HandleStage ==
    ASSUME IndInv, NoRollback, NEW t \in Tx, NEW h \in Host,
           HandleCommit(t, h) \/ HandleRollback(t, h),
           UNCHANGED <<agentVars, coordVars>>
    PROVE  StageInv(t, h)'
<1>0. TypeOK /\ StageInv(t, h) /\ RollbackInv(t, h)
  BY Parts DEF IndInv, NoRollback
<1>1. /\ actor[t][h] = "open" /\ mailbox[t][h] # <<>>
      /\ UNCHANGED <<link, toClient, actor, agentVars, phase, committing>>
  BY DEF HandleCommit, HandleRollback, coordVars
<1>2. phase[t] \notin Before
  BY <1>0, <1>1 DEF StageInv, Before, Ready, Candidate
<1>3. CASE phase[t] = "committing" /\ h \in committing[t]
  <2>1. Acknowledging(t, h)
    BY <1>0, <1>3 DEF StageInv
  <2>2. ~HandleRollback(t, h)
    <3>1. mailbox[t][h] \in Seq({"Commit", "Rollback"})
      BY <1>0 DEF TypeOK, ActorTypeOK
    <3>2. ~Waits("Rollback", mailbox[t][h])
      BY <1>0, <1>3 DEF RollbackInv, RollbackSent
    <3>. QED
      BY <1>1, <3>1, <3>2, WaitsHead DEF HandleRollback
  <2>3. /\ mailbox'[t][h] = Tail(mailbox[t][h]) /\ reply' = reply
        /\ link[t][h] = "up" =>
             toServer'[t][h] = Append(toServer[t][h], COMMIT)
    <3>1. HandleCommit(t, h)
      BY <2>2
    <3>. QED
      BY <1>0, <3>1
         DEF HandleCommit, WriteCommand, TypeOK, LinkTypeOK, ActorTypeOK
  <2>4. CASE reply[t][h] = "Ack"
    BY <1>1, <1>3, <2>3, <2>4 DEF StageInv, Acknowledging
  <2>5. CASE reply[t][h] # "Ack"
    <3>1. /\ Connection(t, h) /\ Silent(t, h) /\ mailbox[t][h] = <<"Commit">>
          /\ reply[t][h] = "awaited"
      BY <1>1, <2>1, <2>5 DEF Acknowledging
    <3>2. mailbox'[t][h] = <<>> /\ toServer'[t][h] = <<COMMIT>>
      BY <2>3, <3>1, OneInQueue DEF Connection, Silent
    <3>. QED
      BY <1>1, <1>3, <2>3, <3>1, <3>2
         DEF StageInv, Acknowledging, Connection, Silent, agentVars
  <2>. QED
    BY <2>4, <2>5
<1>4. CASE ~(phase[t] = "committing" /\ h \in committing[t])
  BY <1>1, <1>2, <1>4 DEF StageInv, Before
<1>. QED
  BY <1>3, <1>4

(***************************************************************************)
(* A database host.                                                        *)
(***************************************************************************)
(* No insert runs before Commit, no delete before Rollback. *)
LEMMA NothingRuns ==
    ASSUME IndInv, NEW t \in Tx, NEW h \in Host
    PROVE  /\ phase[t] \in Before => ins[t][h] = "idle"
           /\ phase[t] \in Before \cup {"committing"} =>
                 del[t][h] = "idle" /\ ~Reads(t, h, ROLLBACK)
<1>1. CommitInv(t, h) /\ RollbackInv(t, h)
  BY Parts
<1>2. Reads(t, h, ROLLBACK) => Waits(ROLLBACK, toServer[t][h])
  <2>1. toServer[t][h] \in Seq(Commands)
    BY DEF IndInv, TypeOK, LinkTypeOK
  <2>. QED
    BY <2>1, WaitsHead DEF Reads
<1>. QED
  BY <1>1, <1>2 DEF Before, CommitInv, CommitSent, RollbackInv, RollbackSent

LEMMA ReadVoteStage ==
    ASSUME IndInv, NoRollback, NEW t \in Tx, NEW h \in Host,
           ReadVote(t, h) \/ DropSplitVote(t, h), UNCHANGED <<actorVars, coordVars>>
    PROVE  StageInv(t, h)'
<1>0. TypeOK /\ StageInv(t, h)
  BY DEF IndInv, NoRollback
<1>1. /\ toServer[t][h] # <<>> /\ Head(toServer[t][h]) = VOTE
      /\ toServer'[t][h] = Tail(toServer[t][h])
      /\ \/ toClient' = toClient
         \/ toClient'[t][h] = Append(toClient[t][h], VOTE_OK)
      /\ UNCHANGED <<link, agent, ins, actorVars, phase, committing>>
  <2>1. /\ toServer[t][h] # <<>> /\ Head(toServer[t][h]) = VOTE
        /\ Consume(t, h)
        /\ toClient' = toClient \/ Respond(t, h, VOTE_OK)
        /\ UNCHANGED <<link, agent, ins, actorVars, phase, committing>>
    BY DEF ReadVote, DropSplitVote, Reads, agentVars, coordVars
  <2>2. toServer'[t][h] = Tail(toServer[t][h])
    BY <1>0, <2>1 DEF Consume, TypeOK, LinkTypeOK
  <2>3. \/ toClient' = toClient
        \/ toClient'[t][h] = Append(toClient[t][h], VOTE_OK)
    BY <1>0, <2>1 DEF Respond, TypeOK, LinkTypeOK
  <2>. QED
    BY <2>1, <2>2, <2>3
<1>2. CASE phase[t] \in Before
  <2>1. h \notin committing[t] /\ Candidate(t, h)
    BY <1>0, <1>1, <1>2 DEF StageInv, Before, Ready, Silent
  <2>2. /\ Connection(t, h) /\ mailbox[t][h] = <<>> /\ toServer[t][h] = <<VOTE>>
        /\ toClient[t][h] = <<>> /\ reply[t][h] = "awaited"
    BY <1>1, <2>1 DEF Candidate, Silent
  <2>3. /\ toServer'[t][h] = <<>>
        /\ toClient'[t][h] = <<>> \/ toClient'[t][h] = <<VOTE_OK>>
    BY <1>1, <2>2, OneInQueue
  <2>. QED
    BY <1>1, <1>2, <2>1, <2>2, <2>3
       DEF StageInv, Before, Candidate, Connection, Silent, actorVars
<1>3. CASE phase[t] = "committing" /\ h \in committing[t]
  <2>1. reply[t][h] = "Ack"
    BY <1>0, <1>1, <1>3, OneInQueue DEF StageInv, Acknowledging, Silent
  <2>. QED
    BY <1>1, <1>3, <2>1 DEF StageInv, Acknowledging, actorVars
<1>4. CASE phase[t] \notin Before /\ ~(phase[t] = "committing" /\ h \in committing[t])
  BY <1>1, <1>4 DEF StageInv, Before
<1>. QED
  BY <1>2, <1>3, <1>4

LEMMA ReadCommitStage ==
    ASSUME IndInv, NoRollback, NEW t \in Tx, NEW h \in Host,
           ReadCommit(t, h) \/ DropJoinedCommands(t, h),
           UNCHANGED <<actorVars, coordVars>>
    PROVE  StageInv(t, h)'
<1>0. TypeOK /\ StageInv(t, h) /\ VoteInv(t, h)
  BY Parts DEF IndInv, NoRollback
<1>1. /\ toServer[t][h] # <<>> /\ Head(toServer[t][h]) = COMMIT
      /\ UNCHANGED <<link, toClient, agent, actorVars, phase, committing>>
  BY DEF ReadCommit, DropJoinedCommands, Reads, agentVars, coordVars
<1>2. phase[t] \notin Before
  BY <1>0, <1>1, OneInQueue DEF StageInv, Before, Ready, Candidate, Silent
<1>3. CASE phase[t] = "committing" /\ h \in committing[t]
  <2>1. CASE reply[t][h] = "Ack"
    BY <1>1, <1>3, <2>1 DEF StageInv, Acknowledging, actorVars
  <2>2. CASE reply[t][h] # "Ack"
    <3>1. /\ Connection(t, h) /\ mailbox[t][h] = <<>> /\ reply[t][h] = "awaited"
          /\ toServer[t][h] = <<COMMIT>> /\ toClient[t][h] = <<>>
      BY <1>0, <1>1, <1>3, <2>2 DEF StageInv, Acknowledging, Silent
    <3>2. ReadCommit(t, h)
      BY <3>1, OneInQueue DEF DropJoinedCommands
    <3>3. ins'[t][h] = "running" /\ toServer'[t][h] = Tail(toServer[t][h])
      BY <1>0, <1>3, <3>2
         DEF ReadCommit, Consume, VoteInv, TypeOK, LinkTypeOK, AgentTypeOK
    <3>4. toServer'[t][h] = <<>>
      BY <3>1, <3>3, OneInQueue
    <3>. QED
      BY <1>1, <1>3, <3>1, <3>3, <3>4
         DEF StageInv, Acknowledging, Connection, Silent, actorVars
  <2>. QED
    BY <2>1, <2>2
<1>4. CASE ~(phase[t] = "committing" /\ h \in committing[t])
  BY <1>1, <1>2, <1>4 DEF StageInv, Before
<1>. QED
  BY <1>3, <1>4

LEMMA InsertDoneStage ==
    ASSUME IndInv, NoRollback, NEW t \in Tx, NEW h \in Host, InsertDone(t, h),
           UNCHANGED <<actorVars, coordVars>>
    PROVE  StageInv(t, h)'
<1>0. TypeOK /\ StageInv(t, h)
  BY DEF IndInv, NoRollback
<1>1. /\ ins[t][h] = "running" /\ ins'[t][h] = "done"
      /\ link'[t][h] = "down" /\ toServer'[t][h] = <<>>
      /\ link[t][h] = "up" => toClient'[t][h] = Append(toClient[t][h], ACK)
      /\ UNCHANGED <<actorVars, phase, committing>>
  BY <1>0
     DEF InsertDone, StopAgent, CloseByServer, Respond, coordVars, TypeOK,
         LinkTypeOK, AgentTypeOK
<1>2. phase[t] \notin Before
  BY <1>1, NothingRuns
<1>3. CASE phase[t] = "committing" /\ h \in committing[t]
  <2>1. CASE reply[t][h] = "Ack"
    BY <1>1, <1>3, <2>1 DEF StageInv, Acknowledging, actorVars
  <2>2. CASE reply[t][h] # "Ack"
    <3>1. /\ actor[t][h] = "open" /\ link[t][h] = "up" /\ toClient[t][h] = <<>>
          /\ mailbox[t][h] = <<>> /\ reply[t][h] = "awaited"
      BY <1>0, <1>1, <1>3, <2>2 DEF StageInv, Acknowledging, Connection, Silent
    <3>2. toClient'[t][h] = <<ACK>>
      BY <1>1, <3>1, OneInQueue
    <3>. QED
      BY <1>1, <1>3, <3>1, <3>2 DEF StageInv, Acknowledging, actorVars
  <2>. QED
    BY <2>1, <2>2
<1>4. CASE ~(phase[t] = "committing" /\ h \in committing[t])
  BY <1>1, <1>2, <1>4 DEF StageInv, Before
<1>. QED
  BY <1>3, <1>4

LEMMA ClientGoneStage ==
    ASSUME IndInv, NoRollback, NEW t \in Tx, NEW h \in Host,
           ErrorClosed(t, h) \/ PeerClosed(t, h),
           UNCHANGED <<actorVars, coordVars>>
    PROVE  StageInv(t, h)'
<1>0. TypeOK /\ StageInv(t, h)
  BY DEF IndInv, NoRollback
<1>1. /\ link[t][h] = "closing" /\ toServer[t][h] = <<>>
      /\ toServer'[t][h] = <<>>
      /\ UNCHANGED <<toClient, actorVars, phase, committing>>
  BY <1>0
     DEF ErrorClosed, PeerClosed, StopAgent, CloseByServer, coordVars, TypeOK,
         LinkTypeOK
<1>2. CASE phase[t] \in Before
  <2>1. h \notin committing[t] /\ Candidate(t, h) /\ ~Connection(t, h)
    BY <1>0, <1>1, <1>2 DEF StageInv, Before, Ready, Connection
  <2>. QED
    BY <1>1, <1>2, <2>1 DEF StageInv, Before, Candidate, Silent, actorVars
<1>3. CASE phase[t] = "committing" /\ h \in committing[t]
  <2>1. reply[t][h] = "Ack"
    BY <1>0, <1>1, <1>3 DEF StageInv, Acknowledging, Connection
  <2>. QED
    BY <1>1, <1>3, <2>1 DEF StageInv, Acknowledging, actorVars
<1>4. CASE phase[t] \notin Before /\ ~(phase[t] = "committing" /\ h \in committing[t])
  BY <1>1, <1>4 DEF StageInv, Before
<1>. QED
  BY <1>2, <1>3, <1>4

LEMMA ServerStage ==
    ASSUME VotesOnlyFail, IndInv, NoRollback, NEW t \in Tx, NEW h \in Host,
           AgentStep(t, h) \/ PeerClosed(t, h) \/ AgentFault(t, h),
           UNCHANGED <<actorVars, coordVars>>
    PROVE  StageInv(t, h)'
<1>1. ~InsertFailed(t, h) /\ ~DeleteFailed(t, h) /\ ~Reset(t, h)
  BY DEF VotesOnlyFail, InsertFailed, DeleteFailed, Reset
<1>2. CASE InsertDocument(t, h)
  <2>1. Untouched(t, h) /\ UNCHANGED <<phase, committing>>
    BY <1>2 DEF InsertDocument, linkVars, actorVars, coordVars, Untouched
  <2>. QED
    BY <2>1, UntouchedStage
<1>3. CASE ReadRollback(t, h) \/ DeleteDone(t, h)
  <2>1. phase[t] \notin Before \cup {"committing"}
    BY <1>3, NothingRuns DEF ReadRollback, DeleteDone
  <2>. QED
    BY <2>1 DEF StageInv, Before, coordVars
<1>. QED
  BY <1>1, <1>2, <1>3, ReadVoteStage, ReadCommitStage, InsertDoneStage,
     ClientGoneStage
     DEF AgentStep, AgentFault

(***************************************************************************)
(* Together.                                                               *)
(***************************************************************************)
(* A step of t with h is no business of other transactions and hosts. *)
LEMMA LocalOther ==
    ASSUME IndInv, NEW t \in Tx, NEW h \in Host,
           \/ Connect(t, h) \/ Timeout(t, h) \/ ActorStep(t, h)
           \/ ServerStep(t, h)
           \/ AgentFault(t, h) /\ UNCHANGED <<actorVars, coordVars>>
           \/ ConnectFailed(t, h) /\ UNCHANGED <<agentVars, coordVars>>,
           NEW u \in Tx, NEW g \in Host, ~(u = t /\ g = h)
    PROVE  Untouched(u, g)
<1>0. TypeOK
  BY DEF IndInv
<1>1. CASE Connect(t, h)
  BY <1>0, <1>1
     DEF Connect, Connected, Untouched, TypeOK, LinkTypeOK, ActorTypeOK, AgentTypeOK
<1>2. CASE Timeout(t, h)
  BY <1>0, <1>2
     DEF Timeout, AskTimeout, Untouched, linkVars, agentVars, TypeOK, ActorTypeOK
<1>3. CASE ActorStep(t, h)
  <2>1. UNCHANGED agentVars
    BY <1>3 DEF ActorStep
  <2>2. /\ reply'[u][g] = reply[u][g] /\ mailbox'[u][g] = mailbox[u][g]
        /\ toClient'[u][g] = toClient[u][g] /\ UNCHANGED <<actor, link>>
    <3>1. CASE Received(t, h)
      <4>1. reply'[u][g] = reply[u][g]
        BY <1>0, <3>1 DEF Received, ReplyListener, TypeOK, ActorTypeOK
      <4>2. toClient'[u][g] = toClient[u][g]
        BY <1>0, <3>1 DEF Received, TypeOK, LinkTypeOK
      <4>. QED
        BY <3>1, <4>1, <4>2 DEF Received
    <3>2. CASE HandleCommit(t, h)
      BY <1>0, <3>2 DEF HandleCommit, TypeOK, ActorTypeOK
    <3>3. CASE HandleRollback(t, h)
      BY <1>0, <3>3 DEF HandleRollback, ReplyListener, TypeOK, ActorTypeOK
    <3>. QED
      BY <1>3, <3>1, <3>2, <3>3 DEF ActorStep
  <2>3. toServer' = toServer \/ \E c \in Commands : WriteCommand(t, h, c)
    BY <1>3 DEF ActorStep, Received, HandleCommit, HandleRollback
  <2>4. toServer'[u][g] = toServer[u][g]
    BY <1>0, <2>3 DEF WriteCommand, TypeOK, LinkTypeOK
  <2>. QED
    BY <2>1, <2>2, <2>4 DEF Untouched, agentVars
<1>4. CASE ConnectFailed(t, h) /\ UNCHANGED <<agentVars, coordVars>>
  BY <1>0, <1>4
     DEF ConnectFailed, ReplyListener, Untouched, linkVars, agentVars, TypeOK,
         ActorTypeOK
<1>5. ASSUME UNCHANGED actorVars, AgentStep(t, h) \/ PeerClosed(t, h)
      PROVE  Untouched(u, g)
  <2>1. CASE ReadVote(t, h)
    BY <1>0, <1>5, <2>1
       DEF ReadVote, Consume, Respond, Untouched, actorVars, TypeOK, LinkTypeOK
  <2>2. CASE ReadCommit(t, h) \/ ReadRollback(t, h)
    BY <1>0, <1>5, <2>2
       DEF ReadCommit, ReadRollback, Consume, Untouched, actorVars, TypeOK,
           LinkTypeOK, AgentTypeOK
  <2>3. CASE InsertDocument(t, h)
    BY <1>5, <2>3 DEF InsertDocument, Untouched, linkVars, actorVars
  <2>4. CASE InsertDone(t, h)
    BY <1>0, <1>5, <2>4
       DEF InsertDone, StopAgent, CloseByServer, Respond, Untouched, actorVars,
           TypeOK, LinkTypeOK, AgentTypeOK
  <2>5. CASE DeleteDone(t, h)
    BY <1>0, <1>5, <2>5
       DEF DeleteDone, StopAgent, CloseByServer, Respond, Untouched, actorVars,
           TypeOK, LinkTypeOK, AgentTypeOK
  <2>6. CASE ErrorClosed(t, h) \/ PeerClosed(t, h)
    BY <1>0, <1>5, <2>6
       DEF ErrorClosed, agentVars, PeerClosed, StopAgent, CloseByServer, Untouched, actorVars,
           TypeOK,
           LinkTypeOK, AgentTypeOK
  <2>. QED
    BY <1>5, <2>1, <2>2, <2>3, <2>4, <2>5, <2>6 DEF AgentStep
<1>6. ASSUME UNCHANGED actorVars, AgentFault(t, h) PROVE Untouched(u, g)
  <2>1. CASE DropSplitVote(t, h) \/ DropJoinedCommands(t, h) \/ Reset(t, h)
    BY <1>0, <1>6, <2>1
       DEF DropSplitVote, DropJoinedCommands, Reset, Consume, Untouched,
           agentVars, actorVars, TypeOK, LinkTypeOK
  <2>2. CASE InsertFailed(t, h) \/ DeleteFailed(t, h)
    BY <1>0, <1>6, <2>2
       DEF InsertFailed, DeleteFailed, StopAgent, CloseByServer, Untouched,
           actorVars, TypeOK, LinkTypeOK, AgentTypeOK
  <2>. QED
    BY <1>6, <2>1, <2>2 DEF AgentFault
<1>. QED
  BY <1>1, <1>2, <1>3, <1>4, <1>5, <1>6 DEF ServerStep

LEMMA InitNoRollback == Init => NoRollback
  BY DEF Init, LinkInit, AgentInit, ActorInit, CoordInit, NoRollback, StageInv,
         Candidate, Silent

LEMMA NextNoRollback ==
    ASSUME VotesOnlyFail, IndInv, NoRollback, [Next]_vars
    PROVE  NoRollback'
<1>0. \A u \in Tx : Decided(u)
  BY DEF NoRollback, Decided
<1>1. ASSUME NEW t \in Tx, CoordStep(t) \/ Servlet(t) PROVE NoRollback'
  <2>1. \A g \in Host : StageInv(t, g)'
    BY <1>1, CoordStage, ServletStage
  <2>2. \A u \in Tx, g \in Host : u # t => StageInv(u, g)'
    BY <1>1, CoordOther, UntouchedStage
  <2>3. \A u \in Tx : Decided(u)'
    BY <1>1, CoordDecides
  <2>. QED
    BY <2>1, <2>2, <2>3 DEF NoRollback, Decided
<1>2. ASSUME NEW t \in Tx, NEW h \in Host,
             \/ Connect(t, h) \/ Timeout(t, h) \/ ActorStep(t, h)
             \/ ServerStep(t, h)
             \/ AgentFault(t, h) /\ UNCHANGED <<actorVars, coordVars>>
             \/ ConnectFailed(t, h) /\ UNCHANGED <<agentVars, coordVars>>
      PROVE  NoRollback'
  <2>1. StageInv(t, h)'
    BY <1>2, ConnectStage, ConnectFailedStage, TimeoutStage, ReceivedStage,
       HandleStage, ServerStage
       DEF ActorStep, ServerStep
  <2>2. UNCHANGED <<phase, result, committing>>
    BY <1>2 DEF Connect, Timeout, ActorStep, ServerStep, coordVars
  <2>3. \A u \in Tx, g \in Host : ~(u = t /\ g = h) => StageInv(u, g)'
    BY <1>2, <2>2, LocalOther, UntouchedStage
  <2>. QED
    BY <1>0, <2>1, <2>2, <2>3 DEF NoRollback, Decided
<1>3. \A h \in Host : ~ServerCrash(h)
  BY DEF VotesOnlyFail, ServerCrash
<1>4. \A t \in Tx : ~ClientCrash(t)
  BY DEF VotesOnlyFail, ClientCrash
<1>5. CASE UNCHANGED vars
  BY <1>5
     DEF vars, linkVars, agentVars, actorVars, coordVars, NoRollback, StageInv,
         Ready, Candidate, Acknowledging, Connection, Silent
<1>. QED
  BY <1>1, <1>2, <1>3, <1>4, <1>5 DEF Next, Fault, AllDone

LEMMA NoRollbackLeavesNothing ==
    ASSUME IndInv, NoRollback PROVE ErrorMeansNothingStored
<1> SUFFICES ASSUME NEW t \in Tx, http[t] = "error", NEW h \in Host,
                    Stored(t, h) # {}
             PROVE  FALSE
  BY DEF ErrorMeansNothingStored, HostsWithDocs
<1>1. Cardinality(committing[t]) < MinDbs
  BY CoordParts DEF ResultInv, NoRollback
<1>2. PICK i \in 1..NDocs : <<t, i>> \in votes[h]
  BY DEF Stored, Doc
<1>3. i <= inserted[t][h]
  BY <1>2, Parts DEF StorageInv
<1>4. Cardinality(committing[t]) = MinDbs
  BY <1>2, <1>3, Parts DEF StorageInv, CommitInv, CommitSent
<1>. QED
  BY <1>1, <1>4, MinDbsAssumption

(* NeverRolledBack: where hosts can only fail to vote, no coordinator ever *)
(* rolls back, and none answers Error that has found the hosts it needs:   *)
(* every Commit it sends is acknowledged before the wait for it ends.      *)
THEOREM NeverRolledBack ==
    ASSUME VotesOnlyFail PROVE Spec => []NoRollback
<1>1. IndInv /\ NoRollback /\ [Next]_vars => NoRollback'
  BY NextNoRollback
<1>. QED
  BY <1>1, Invariance, InitNoRollback, PTL DEF Spec

(* ErrorLeavesNothing: where hosts can only fail to vote, a POST answered  *)
(* "error" leaves no document anywhere; without that assumption it may, as *)
(* late_ack shows.                                                         *)
THEOREM ErrorLeavesNothing ==
    ASSUME VotesOnlyFail PROVE Spec => []ErrorMeansNothingStored
<1>1. IndInv /\ NoRollback => ErrorMeansNothingStored
  BY NoRollbackLeavesNothing
<1>. QED
  BY <1>1, Invariance, NeverRolledBack, PTL

==============================================================================
