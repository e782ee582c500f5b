----------------------------- MODULE VotingSystem -----------------------------
(***************************************************************************)
(* From the POST of a vote to the tables of the results: aggregators that  *)
(* read the collections of the redundant store.  The store is its abstract *)
(* specification; TwoPhaseCommit implements it, and an aggregator touches  *)
(* nothing of it, so what holds here holds of the whole system.            *)
(***************************************************************************)
EXTENDS RedundantStore, Aggregator

(* Each vote document has a rowId of its own, the same on every host. *)
ASSUME RowsAssumption == Row = Tx \X (1..NDocs)
ASSUME StoreAssumption ==
    /\ IsFiniteSet(Host) /\ Mongo = Host
    /\ Copies \in Nat
    /\ IsFiniteSet(Tx) /\ NDocs \in Nat

VARIABLES
    before,     \* before[a]: (history) transactions accepted when a's cycle began
    missed      \* missed[a]: (history) instances a's cycle got nothing from

historyVars == <<before, missed>>
vars == <<storeVars, countVars, historyVars>>

Init ==
    /\ StoreInit
    /\ AggInit
    /\ before = [a \in Agg |-> {}]
    /\ missed = [a \in Agg |-> {}]

(* TypeOK: store, aggregators and tables keep to their sets of values. *)
TypeOK ==
    /\ AggTypeOK
    /\ accepted \in [Tx -> BOOLEAN]
    /\ place \in [Tx -> SUBSET Host]
    /\ votes \in [Host -> SUBSET Row]
    /\ before \in [Agg -> SUBSET Tx]
    /\ missed \in [Agg -> SUBSET Host]

StoreStep == StoreNext /\ UNCHANGED <<countVars, historyVars>>

BeginCycle(a) ==
    /\ ConnectMongo(a)
    /\ before' = [before EXCEPT ![a] = {t \in Tx : accepted[t]}]
    /\ missed' = [missed EXCEPT ![a] = {}]
    /\ UNCHANGED storeVars

Read(a, h) ==
    /\ ReadInstance(a, h, votes[h])
    /\ missed' = [missed EXCEPT ![a] =
                     IF Found(h, votes[h]) = votes[h] THEN @ ELSE @ \cup {h}]
    /\ UNCHANGED <<storeVars, before>>

AggregatorStep(a) ==
    \/ BeginCycle(a)
    \/ \E h \in Mongo : Read(a, h)
    \/ /\ Step(a) /\ pc[a] # "mongo"
       /\ UNCHANGED <<storeVars, historyVars>>

Next ==
    \/ StoreStep
    \/ \E a \in Agg : AggregatorStep(a)
    \/ Environment /\ UNCHANGED <<storeVars, historyVars>>

Spec == Init /\ [][Next]_vars

(* The JVM runs the one thread of an aggregator; nothing else has to move. *)
FairSpec == Spec /\ \A a \in Agg : WF_vars(AggregatorStep(a))

(***************************************************************************)
(* Properties.                                                             *)
(***************************************************************************)

(* AcceptedAreCounted: a vote whose POST was accepted before a cycle began *)
(* is among the rows that cycle counts, unless the cycle got nothing from  *)
(* REDUNDANCY or more instances; outages, late inserts and rollbacks of    *)
(* other POSTs, and other aggregators make no difference.                  *)
AcceptedAreCounted ==
    \A a \in Agg : pc[a] = "inserting" =>
        \A t \in before[a] :
            Cardinality(missed[a]) < Copies => Documents(t) \subseteq mapAllData[a]

(* VotesSumCountsVotes: votes_sum of a row of the results is at most the   *)
(* number of votes there are for its key ("res_party_percent - the number  *)
(* of votes for parties in total"), however many copies they have.         *)
VotesSumCountsVotes ==
    \A p \in Pg, e \in Entries : res[p][e] <= Cardinality(Voters(e))

(* TablesPublished: when the only aggregator has gone through all tables,  *)
(* every instance still connected shows exactly its statistics, but for    *)
(* the rows a foreign key refuses; failing rows and instances in between   *)
(* have not made it skip others.                                           *)
TablesPublished ==
    \A a \in Agg : Agg = {a} /\ pc[a] = "inserting" /\ todo[a] = {} /\ left[a] = {} =>
        \A p \in conn[a], e \in Entries :
            ForeignKeyOk(e) /\ stats[a][e] > 0 => res[p][e] = stats[a][e]

(* The tables of instance p, as the web application reads them *)
TablesOf(p) == INSTANCE ResultTables
    WITH Entry <- Entries,
         Allowed <- AllowedEntries,
         Count <- Nat \ {0},
         tab <- res[p]

(* ImplementsTables: whatever aggregators, machines and other instances do, *)
(* the tables of an instance only change by a row getting a positive number *)
(* at a time; no row is refused by a foreign key and there, and none goes   *)
(* away when a process starts anew or stops between two rows.               *)
ImplementsTables ==
    /\ \A p \in Pg : TablesOf(p)!TabInit
    /\ [][\A p \in Pg : UNCHANGED res[p] \/ TablesOf(p)!TabNext]_res

(***************************************************************************)
(* What AcceptedAreCounted and TablesPublished rest on: each is inductive, *)
(* given TypeOK.                                                           *)
(***************************************************************************)

(* An accepted vote has all its copies, and keeps them. *)
AcceptedCopies ==
    \A t \in Tx : accepted[t] =>
        /\ Cardinality(place[t]) = Copies
        /\ \A h \in place[t] : Documents(t) \subseteq votes[h]

HasBegun(a) == pc[a] \in {"postgres", "d_candidates", "d_age", "reading", "inserting"}

(* CountInv: in a cycle, a host of a vote accepted before has still to be  *)
(* read, has given nothing, or has given all documents of that vote.       *)
CountInv ==
    /\ AcceptedCopies
    /\ \A a \in Agg : \A t \in before[a] : accepted[t]
    /\ \A a \in Agg : HasBegun(a) =>
          \A t \in before[a] : \A h \in place[t] :
              h \in unread[a] \/ h \in missed[a] \/ Documents(t) \subseteq mapAllData[a]
    /\ \A a \in Agg : pc[a] = "inserting" => unread[a] = {}

(* PublishInv: while the only aggregator inserts, each of its numbers is   *)
(* in a table still to open, a row still to write, or in the database.     *)
PublishInv ==
    \A a \in Agg : Agg = {a} /\ pc[a] = "inserting" =>
        \A p \in conn[a], e \in Entries :
            ForeignKeyOk(e) /\ stats[a][e] > 0 =>
                \/ <<e[1], p>> \in todo[a]
                \/ <<e, p>> \in left[a]
                \/ res[p][e] = stats[a][e]

InCycle(a) == pc[a] \notin {"sleeping", "exited"}

(* EveryCycleEnds: once one instance of either kind stays up, every cycle  *)
(* comes to its end, whatever fails in the middle of it.                   *)
EveryCycleEnds ==
    /\ \E h \in Mongo : <>[](h \in mongoUp)
    /\ \E p \in Pg : <>[](p \in pgUp)
    => \A a \in Agg : InCycle(a) ~> ~InCycle(a)

==============================================================================
