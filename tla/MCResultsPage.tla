---------------------------- MODULE MCResultsPage -----------------------------
(***************************************************************************)
(* ResultsPage for TLC: one row for each kind of chart, and the small      *)
(* tables the numbers of the handlers are checked on.                      *)
(***************************************************************************)
EXTENDS ResultsPage

MCPartyOf == <<1, 1, 2>>

MCEntry == {<<"candidates", <<1>>>>, <<"constituency", <<1, 1>>>>}

MCMenu == {<<"getFrequency", 0>>, <<"getConstituencies", 0>>, PartyList, SexList, CandidatesPanel}

PieTables == [({"candidates"} \X {<<c>> : c \in 1..3}) \cup ({"percent"} \X {<<1>>, <<2>>})
                 -> {0, 1, 2, 5}]
SexTables == [{"sex"} \X {<<1, 1>>, <<2, 1>>, <<1, 2>>} -> {0, 1, 2, 5}]
ColumnTables == [{"age"} \X ((1..2) \X (1..3)) -> 0..2]

EverySliceFits == \A t \in PieTables \cup SexTables : SlicesFit(t)

(* PercentagesFit: whatever the tables held when a pie that is displayed   *)
(* was fetched, its slices grow with the votes and add up to 100 but for   *)
(* the rounding, over the candidates of the party or the parties of a sex. *)
PercentagesFit == Displayed \cap PieViews # {} => EverySliceFits

EveryColumnFits == \A t \in ColumnTables : ColumnsFit(t, "age")

(* AlignedWhenFull: columns displayed have labels that appear once each    *)
(* and, when the first party has them all, a party's columns are over      *)
(* their own labels up to a gap.                                           *)
AlignedWhenFull == Displayed \cap MixedViews # {} => EveryColumnFits

==============================================================================
