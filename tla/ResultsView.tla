----------------------------- MODULE ResultsView ------------------------------
(***************************************************************************)
(* controllers/default.py of the web application RSO: what the handlers    *)
(* answer.  Each makes one SELECT, so it sees the tables at one moment,    *)
(* and turns the rows into the numbers and labels of a chart.              *)
(*                                                                         *)
(* A pie is a function from its rows to their slices.  A table of two keys *)
(* becomes a column chart: labels (districts) and, for each party, its     *)
(* columns from left to right, the first of them over the first label.     *)
(***************************************************************************)
EXTENDS Integers, Sequences, FiniteSets, FiniteSetsExt, SequencesExt

CONSTANTS
    PartyOf,    \* table d_candidates: PartyOf[c] is the party_id of c
    PartyId,    \* table d_parties
    SexId       \* table d_sex

ASSUME PartyOfAssumption == \A c \in DOMAIN PartyOf : PartyOf[c] \in PartyId

(***************************************************************************)
(* A view is what is asked for: a function of rso.js and its argument.     *)
(***************************************************************************)
Mixed == [getConstituencies |-> "constituency", getAge |-> "age",
          getEducation |-> "education"]

MixedViews == {<<f, 0>> : f \in DOMAIN Mixed}
PartyViews == {<<"getCandidatesFromParty", p>> : p \in PartyId}
SexViews == {<<"getSex", g>> : g \in SexId}
PieViews == {<<"getFrequency", 0>>, <<"getPartyPercentage", 0>>} \cup PartyViews \cup SexViews
ChartViews == MixedViews \cup PieViews
PartyList == <<"getCandidates", 0>>
SexList == <<"getSexList", 0>>
Lists == {PartyList, SexList}
CandidatesPanel == <<"showCandidatesPanel", 0>>
Views == ChartViews \cup Lists \cup {CandidatesPanel}

Rows(res, s) == {e \in DOMAIN res : e[1] = s /\ res[e] > 0}

Total(res, rows) == MapThenSumSet(LAMBDA e : res[e], rows)

(* The share of each row, rounded down: number*100/total of integers *)
Shares(res, rows) == [e \in rows |-> (res[e] * 100) \div Total(res, rows)]

(* int(round(float(num)*100/float(total))): halves are rounded up *)
RoundedShares(res, rows) ==
    [e \in rows |-> (res[e] * 200 + Total(res, rows)) \div (2 * Total(res, rows))]

getPartyPercentageData(res) == RoundedShares(res, Rows(res, "percent"))

(* Mutant of getCandidatePercentageData: shares of all votes, not the party's. *)
SharesOfAllVotes(res, p) ==
    LET votes == Rows(res, "candidates")
    IN [e \in {d \in votes : PartyOf[d[2][1]] = p} |-> (res[e] * 100) \div Total(res, votes)]

getCandidatePercentageData(res, p) ==
    Shares(res, {e \in Rows(res, "candidates") : PartyOf[e[2][1]] = p})

getSexPercentageData(res, g) ==
    Shares(res, {e \in Rows(res, "sex") : e[2][2] = g})

(* Constituencies, age groups and education levels are alike. *)
KeysOf(res, s, p) == {e[2][2] : e \in {r \in Rows(res, s) : r[2][1] = p}}
PartiesIn(res, s) == {e[2][1] : e \in Rows(res, s)}
FirstParty(res, s, k) == Min({p \in PartiesIn(res, s) : k \in KeysOf(res, s, p)})

(* The members of S in an order, a set of pairs. *)
Sorted(S, order) ==
    CHOOSE f \in [1..Cardinality(S) -> S] :
        \A i, j \in 1..Cardinality(S) : i < j => <<f[i], f[j]>> \in order

Ascending(S) == {e \in S \X S : e[1] < e[2]}

(* A label is appended where it is first met: ORDER BY party_id, then key. *)
LabelSet(res, s) == {e[2][2] : e \in Rows(res, s)}

LabelOrder(res, s) ==
    {e \in LabelSet(res, s) \X LabelSet(res, s) :
        LET a == FirstParty(res, s, e[1])
            b == FirstParty(res, s, e[2])
        IN a < b \/ (a = b /\ e[1] < e[2])}

Labels(res, s) == Sorted(LabelSet(res, s), LabelOrder(res, s))

(* Mutant of Columns: no ORDER BY on the key. *)
ColumnsUnordered(res, s, p) ==
    LET ks == SetToSeq(KeysOf(res, s, p))
    IN [i \in DOMAIN ks |-> res[<<s, <<p, ks[Len(ks) + 1 - i]>>>>]]

(* The numbers of party p, in the order of the rows. *)
Columns(res, s, p) ==
    LET ks == Sorted(KeysOf(res, s, p), Ascending(KeysOf(res, s, p)))
    IN [i \in DOMAIN ks |-> res[<<s, <<p, ks[i]>>>>]]

(***************************************************************************)
(* What the page makes of an answer.  SUM of no row is None and getFrequency *)
(* fails; the dictionary of a column chart is None without rows.           *)
(***************************************************************************)
Kinds == {"data", "empty", "null", "error"}

Handler(res, v) ==
    CASE v[1] = "getFrequency" ->
            IF Rows(res, "candidates") = {} THEN "error" ELSE "data"
      [] v[1] = "getPartyPercentage" ->
            IF DOMAIN getPartyPercentageData(res) = {} THEN "empty" ELSE "data"
      [] v[1] = "getCandidatesFromParty" ->
            IF DOMAIN getCandidatePercentageData(res, v[2]) = {} THEN "empty" ELSE "data"
      [] v[1] = "getSex" ->
            IF DOMAIN getSexPercentageData(res, v[2]) = {} THEN "empty" ELSE "data"
      [] v \in MixedViews ->
            IF Labels(res, Mixed[v[1]]) = <<>> THEN "null" ELSE "data"
      [] v = PartyList -> IF PartyId = {} THEN "empty" ELSE "data"
      [] v = SexList -> IF SexId = {} THEN "empty" ELSE "data"
      [] v = CandidatesPanel -> IF DOMAIN PartyOf = {} THEN "null" ELSE "data"

(***************************************************************************)
(* What is right about the numbers, whatever the tables hold.              *)
(***************************************************************************)
SumOf(pie) == Total(pie, DOMAIN pie)

(* More votes never get a smaller slice. *)
Monotone(res, pie) == \A e, f \in DOMAIN pie : res[e] <= res[f] => pie[e] <= pie[f]

(* Rounding down loses less than one per cent a slice. *)
SharesFit(res, pie) ==
    /\ Monotone(res, pie)
    /\ pie # <<>> => /\ SumOf(pie) <= 100
                     /\ SumOf(pie) > 100 - Cardinality(DOMAIN pie)

(* Rounding to the nearest gains or loses at most half of one a slice. *)
RoundedSharesFit(res, pie) ==
    LET n == Cardinality(DOMAIN pie) IN
    /\ Monotone(res, pie)
    /\ pie # <<>> => 2 * SumOf(pie) \in (200 - n)..(200 + n)

SlicesFit(res) ==
    /\ \A p \in PartyId : SharesFit(res, getCandidatePercentageData(res, p))
    /\ \A g \in SexId : SharesFit(res, getSexPercentageData(res, g))
    /\ RoundedSharesFit(res, getPartyPercentageData(res))

(* When the first party has a column for every label, the columns of each  *)
(* party are over their own labels up to the first it has no row for; the  *)
(* columns after a gap, and all when the first party has one, are not.     *)
ColumnsFit(res, s) ==
    LET labels == Labels(res, s) IN
    /\ ToSet(labels) = LabelSet(res, s) /\ IsInjective(labels)
    /\ labels # <<>> /\ KeysOf(res, s, Min(PartiesIn(res, s))) = ToSet(labels) =>
          \A p \in PartiesIn(res, s) : \A i \in DOMAIN Columns(res, s, p) :
              (\A j \in 1..i : labels[j] \in KeysOf(res, s, p)) =>
                  Columns(res, s, p)[i] = res[<<s, <<p, labels[i]>>>>]

==============================================================================
