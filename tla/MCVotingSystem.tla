---------------------------- MODULE MCVotingSystem ----------------------------
(***************************************************************************)
(* VotingSystem for TLC: the dictionaries and vote documents.  Candidates  *)
(* 1 and 2 are of parties 1 and 2.                                         *)
(***************************************************************************)
EXTENDS VotingSystem, PeselAge, TLC

MCPartyOf == <<1, 2>>
MCAgeGroup == <<<<18, 40>>, <<41, 200>>>>

Vote(candidate, age) ==
    [vote |-> candidate, age |-> age, education |-> 1, gender |-> 1, area |-> 1,
     complete |-> TRUE]

(* The first document of a POST is for candidate 1, the second for 2; all  *)
(* are otherwise alike.                                                    *)
MCInfo == [r \in Tx \X (1..NDocs) |-> Vote(r[2], 30)]

(* The second document is for a candidate nobody knows, without a readable *)
(* PESEL.                                                                  *)
MCInfoOdd == [r \in Tx \X (1..NDocs) |-> IF r[2] = 1 THEN Vote(2, 30) ELSE Vote(9, 0)]

(* The documents of one POST lack a field. *)
Unreadable == CHOOSE t \in Tx : TRUE
MCInfoBroken == [r \in Tx \X (1..NDocs) |->
                    [Vote(r[2], 30) EXCEPT !.complete = (r[1] # Unreadable)]]

HostSymmetry == Permutations(Host)

(* A leap day, two days of which one is a year's last, and one when those  *)
(* born after 1999 vote.                                                   *)
MCNow == {<<2016, 2, 29>>, <<2017, 1, 10>>, <<2018, 12, 31>>, <<2040, 6, 15>>}

Births == {birth \in (1900..2020) \X (1..12) \X (1..31) :
              birth[3] \in {1, 2, 10, 15, 28, LastDay(birth[1], birth[2])}}

EveryAgeFits == \A birth \in Births, now \in MCNow : AgeFits(birth, now)

(* AgesFit: the age votes are counted with is the voter's or one more, for *)
(* births before 2000, and one or two less after; whatever the day, leap   *)
(* years and the century that the two digits of a PESEL leave open.        *)
AgesFit == (\E a \in Agg : stats[a] # NoStatistics) => EveryAgeFits

==============================================================================
