--------------------------- MODULE MCTwoPhaseCommit ---------------------------
(***************************************************************************)
(* TwoPhaseCommit for TLC: the hosts are drawn at random and nothing tells *)
(* them apart, nor the transactions.                                       *)
(***************************************************************************)
EXTENDS TwoPhaseCommitInv, TLC

HostSymmetry == Permutations(Host)
Symmetry == HostSymmetry \cup Permutations(Tx)

==============================================================================
