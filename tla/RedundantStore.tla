---------------------------- MODULE RedundantStore ----------------------------
(***************************************************************************)
(* What the two-phase commit layer promises to those who POST votes and to *)
(* the aggregator that reads the collections: a POST answered "ok" has its *)
(* documents on a fixed set of Copies hosts, complete and for good.  An    *)
(* answer "error" promises only that the POST will never count as accepted *)
(* and a POST that got no answer may have gone either way.                 *)
(***************************************************************************)
EXTENDS Naturals, FiniteSets

CONSTANTS Tx, Host, Copies, NDocs

VARIABLES
    answer,      \* answer[t]: what the sender of t was told
    accepted,    \* accepted[t]: the decision has been taken, for "ok"
    place,       \* place[t]: the hosts that are to hold t
    votes        \* votes[h]: the documents on host h

storeVars == <<answer, accepted, place, votes>>

Documents(t) == {<<t, i>> : i \in 1..NDocs}

StoreInit ==
    /\ answer = [t \in Tx |-> "none"]
    /\ accepted = [t \in Tx |-> FALSE]
    /\ place = [t \in Tx |-> {}]
    /\ votes = [h \in Host |-> {}]

(* Settle on the hosts, once. *)
Choose(t) ==
    /\ ~accepted[t] /\ place[t] = {}
    /\ \E S \in SUBSET Host :
        /\ Cardinality(S) = Copies
        /\ place' = [place EXCEPT ![t] = S]
    /\ UNCHANGED <<answer, accepted, votes>>

(* A document comes to one of the chosen hosts. *)
Add(t, h) ==
    /\ ~accepted[t] /\ h \in place[t]
    /\ \E d \in Documents(t) : votes' = [votes EXCEPT ![h] = @ \cup {d}]
    /\ UNCHANGED <<answer, accepted, place>>

(* The documents of t are taken back from a host, those of others are not. *)
TakeBack(t, h) ==
    /\ ~accepted[t]
    /\ votes' = [votes EXCEPT ![h] = @ \ Documents(t)]
    /\ UNCHANGED <<answer, accepted, place>>

Accept(t) ==
    /\ ~accepted[t] /\ answer[t] # "error"
    /\ Cardinality(place[t]) = Copies
    /\ \A h \in place[t] : Documents(t) \subseteq votes[h]
    /\ accepted' = [accepted EXCEPT ![t] = TRUE]
    /\ UNCHANGED <<answer, place, votes>>

Tell(t) ==
    /\ answer[t] = "none"
    /\ \/ accepted[t] /\ answer' = [answer EXCEPT ![t] = "ok"]
       \/ ~accepted[t] /\ answer' = [answer EXCEPT ![t] = "error"]
       \/ answer' = [answer EXCEPT ![t] = "failed"]
    /\ UNCHANGED <<accepted, place, votes>>

StoreNext ==
    \E t \in Tx :
        \/ Choose(t) \/ Accept(t) \/ Tell(t)
        \/ \E h \in Host : Add(t, h) \/ TakeBack(t, h)

StoreSpec == StoreInit /\ [][StoreNext]_storeVars

==============================================================================
