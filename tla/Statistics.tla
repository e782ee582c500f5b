------------------------------ MODULE Statistics ------------------------------
(***************************************************************************)
(* Statistics.java of rso-aggregator: six maps from a key to a number of   *)
(* votes, which calculateAll adds all rows of one reading to.              *)
(*                                                                         *)
(* The six maps are one function from entries <<table, key>> to numbers; a *)
(* key that is not in a map has the number 0 (no key ever maps to 0).      *)
(***************************************************************************)
EXTENDS Naturals, FiniteSets

CONSTANTS
    Info,       \* Info[r]: the vote document with rowId r
    PartyOf,    \* table d_candidates: PartyOf[c] is the party_id of c
    AgeGroup,   \* table d_age: AgeGroup[g] is <<from, to>>
    Tables      \* the tables looked at, all six or some of them

Row == DOMAIN Info

(***************************************************************************)
(* A document has a candidate (vote), the age its PESEL gives (0 when it   *)
(* has no readable birth date), education, gender, area and may lack one   *)
(* of the fields that getAllData reads (complete).                         *)
(***************************************************************************)
Fields == {"vote", "age", "education", "gender", "area", "complete"}

ASSUME InfoAssumption == \A r \in Row : Fields \subseteq DOMAIN Info[r]

(* The dictionaries that may or may not have been downloaded. *)
Dictionaries == {"d_candidates", "d_age"}

(* insertStats writes the tables in this order. *)
Rank == [candidates |-> 1, percent |-> 2, education |-> 3, sex |-> 4,
         constituency |-> 5, age |-> 6]

ASSUME TablesAssumption == Tables \subseteq DOMAIN Rank

(* party_id in calculateAll: 1 for a candidate the dictionary has not got. *)
Party(r, known) ==
    IF "d_candidates" \in known /\ Info[r].vote \in DOMAIN PartyOf
    THEN PartyOf[Info[r].vote]
    ELSE 1

GroupsOf(age) == {g \in DOMAIN AgeGroup :
                     AgeGroup[g][1] <= age /\ age <= AgeGroup[g][2]}

(* getAgeIdBasedOnAge: 0 when no age group fits. *)
AgeId(r, known) ==
    IF "d_age" \in known /\ GroupsOf(Info[r].age) # {}
    THEN CHOOSE g \in GroupsOf(Info[r].age) : TRUE
    ELSE 0

(* The keys under which the six m_calculate... methods count row r. *)
KeysOf(r, known) ==
    LET p == Party(r, known) IN
    [candidates   |-> <<Info[r].vote>>,
     percent      |-> <<p>>,
     education    |-> <<p, Info[r].education>>,
     sex          |-> <<p, Info[r].gender>>,
     constituency |-> <<p, Info[r].area>>,
     age          |-> <<p, AgeId(r, known)>>]

Entries == {<<s, KeysOf(r, known)[s]>> :
               s \in Tables, r \in Row, known \in SUBSET Dictionaries}

Counted(e, rows, known) == {r \in rows : KeysOf(r, known)[e[1]] = e[2]}

(* calculateAll: each row adds 1 to its key in each of the six maps. *)
CalculateAll(stats, rows, known) ==
    [e \in Entries |-> stats[e] + Cardinality(Counted(e, rows, known))]

NoStatistics == [e \in Entries |-> 0]

(* The foreign keys of the res_... tables. *)
ForeignKeyOk(e) ==
    /\ e[1] = "candidates" => e[2][1] \in DOMAIN PartyOf
    /\ e[1] = "age" => e[2][2] \in DOMAIN AgeGroup

AllowedEntries == {e \in Entries : ForeignKeyOk(e)}

(* The rows that can ever count towards entry e. *)
Readable == {r \in Row : Info[r].complete}
MayCount == {<<<<s, KeysOf(r, known)[s]>>, r>> :
                s \in Tables, r \in Readable, known \in SUBSET Dictionaries}
Voters(e) == {v \in MayCount : v[1] = e}

==============================================================================
