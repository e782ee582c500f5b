----------------------------- MODULE ResultTables -----------------------------
(***************************************************************************)
(* What the results web application may expect of the res_... tables of    *)
(* the one PostgreSQL instance it reads: rows are written one at a time,   *)
(* in any order and again and again; a row holds a positive number, is one *)
(* the foreign keys allow, and never goes away.  VotingSystem implements   *)
(* this for each instance.                                                 *)
(***************************************************************************)
EXTENDS Naturals

CONSTANTS
    Entry,      \* the rows <<table, key>> there may be
    Allowed,    \* those that no foreign key refuses
    Count       \* the numbers a row may hold

ASSUME EntryAssumption == Allowed \subseteq Entry
ASSUME CountAssumption == Count \subseteq Nat \ {0}

VARIABLE tab    \* tab[e]: votes_sum of row e, 0 when there is no such row

TabTypeOK == tab \in [Entry -> Count \cup {0}]

TabInit == tab = [e \in Entry |-> 0]

(* insert ... on conflict do update set votes_sum *)
WriteRow(e, n) ==
    /\ e \in Allowed
    /\ tab' = [tab EXCEPT ![e] = n]

TabNext == \E e \in Allowed : tab'[e] \in Count /\ WriteRow(e, tab'[e])

TabSpec == TabInit /\ [][TabNext]_tab

==============================================================================
